---- MODULE Spec2Model ----
(***************************************************************************)
(* A model of the Philips SICP control library (sicppy) and of the Home    *)
(* Assistant coordinator built on it.                                      *)
(*                                                                         *)
(*   - Wire format and response classifier: pure operators.                *)
(*   - Transport (SICPIPMonitor.send_message, asyncio variant): one TCP    *)
(*     connection per request, stepped through its suspension points.      *)
(*   - Command engine (SICPProtocol, asyncio variant): one call at a time, *)
(*     each call validating, building, sending and decoding.               *)
(*   - Coordinator (PhilipsSicpCoordinator): tasks serialised by a lock.   *)
(*                                                                         *)
(* Bytes are naturals 0..255, byte strings are sequences of bytes.  Python *)
(* index i of a buffer is index i+1 of the sequence.                       *)
(***************************************************************************)
EXTENDS Naturals, Integers, Sequences, FiniteSets, TLC

VARIABLES
    \* ---- command engine and transport (one SICPIPMonitor instance) ----
    monitor_id,     \* SICPProtocol.monitor_id, the stored device id
    pc,             \* position of the running call
    call,           \* the running (or last) call: [op, a, b]
    message,        \* the request handed to send_message
    expect_data,    \* send_message's expect_data argument
    writer,         \* the connection of this send_message: none/open/closed
    pending,        \* exception travelling through the finally block
    response_data,  \* what reader.read returned ("unread" before)
    wire,           \* requests transmitted during the call, in order
    answers,        \* what the display sent back for each of them
    opened,         \* connections opened during the call
    closed,         \* connections closed during the call
    fault,          \* first transport failure of the call: [stage, kind]
    close_failed,   \* wait_closed raised during the call
    result,         \* outcome of the call
    id_before,      \* monitor_id when the call started
    \* ---- response classifier driven on arbitrary buffers ----
    raw_data,       \* the buffer under classification
    parsed,         \* whether raw_data has been classified
    response,       \* the SicpResponse built from raw_data
    \* ---- coordinator ----
    lock_held,      \* PhilipsSicpCoordinator._lock is locked
    tpc,            \* per task: idle / waiting / running
    tleft,          \* per task: TCP exchanges still to run in its client call
    tconn,          \* per task: whether an exchange of it is in flight
    \* ---- message builders driven on arbitrary arguments ----
    built_by,       \* the builder applied and its arguments
    built,          \* the request it returned
    \* ---- one poll cycle (SicpDisplayClient.fetch_status) ----
    pstep,          \* index of the field read that comes next
    pkey,           \* inside an info map: index of the key that comes next
    fields,         \* the snapshot's plain fields: "default" or "value"
    info,           \* the dict a _collect_*_info call is filling
    model_info,     \* the snapshot's model_info map
    sicp_info,      \* the snapshot's sicp_info map
    pattempted,     \* the field reads started so far
    pfailed,        \* the field reads whose try block caught an exception
    pfailures,      \* get operations that raised during the cycle
    poll_result,    \* "pending", "returned" or "raised"
    \* ---- label resolution of the command line ----
    raw_value,      \* the argument given to remote-key
    choice,         \* what _resolve_enum_choice made of it
    \* ---- backlight set and read back, in either engine ----
    bl_call,        \* the engine, device id and flag of set_backlight
    bl_stored,      \* the state byte the display stored from the request
    bl_reply,       \* the display's answer to the backlight get
    bl_result       \* what get_backlight_state made of it

engineVars == <<monitor_id, pc, call, message, expect_data, writer, pending,
                response_data, wire, answers, opened, closed, fault,
                close_failed, result, id_before>>
classVars == <<raw_data, parsed, response>>
coordVars == <<lock_held, tpc, tleft, tconn>>
buildVars == <<built_by, built>>
pollVars == <<pstep, pkey, fields, info, model_info, sicp_info, pattempted,
              pfailed, pfailures, poll_result>>
resolveVars == <<raw_value, choice>>
backlightVars == <<bl_call, bl_stored, bl_reply, bl_result>>
vars == <<engineVars, classVars, coordVars, buildVars, pollVars, resolveVars,
          backlightVars>>

\* What the steps of one part leave alone: the variables of the other parts.
notEngine == <<classVars, coordVars, buildVars, pollVars, resolveVars, backlightVars>>
notClass == <<engineVars, coordVars, buildVars, pollVars, resolveVars, backlightVars>>
notCoord == <<engineVars, classVars, buildVars, pollVars, resolveVars, backlightVars>>
notBuild == <<engineVars, classVars, coordVars, pollVars, resolveVars, backlightVars>>
notPoll == <<engineVars, classVars, coordVars, buildVars, resolveVars, backlightVars>>
notResolve == <<engineVars, classVars, coordVars, buildVars, pollVars, backlightVars>>
notBacklight == <<engineVars, classVars, coordVars, buildVars, pollVars, resolveVars>>

----------------------------------------------------------------------------
(* Bounds of the model. *)

\* Longest response buffer handed to the classifier.
MaxBuf == 6
\* Entities that may issue a user-initiated set at the same time.
NUsers == 3
\* TCP exchanges of one poll (fetch_status runs one get after the other).
PollExchanges == 3
\* Get operations that may raise during one poll cycle.
MaxPollFailures == 2

----------------------------------------------------------------------------
(* Protocol constants. *)

CMD_COMMUNICATION_CONTROL == 0
CMD_POWER_STATE_SET == 24
CMD_POWER_STATE_GET == 25
CMD_BACKLIGHT_SET == 114
CMD_MONITOR_ID_SET == 105
CMD_COLOR_TEMPERATURE_SET == 52
CMD_COLOR_TEMPERATURE_FINE_SET == 17
CMD_OSD_INFO_SET == 44
CMD_AUTO_SIGNAL_SET == 174
CMD_GROUP_ID_SET == 92
CMD_SMART_POWER_GET == 222
CMD_VOLUME_SET == 68
CMD_VOLUME_GET == 69
RESPONSE_ACK == 6
RESPONSE_NAV == 24
RESPONSE_NACK == 21
POWER_OFF == 1
POWER_ON == 2
BACKLIGHT_ON == 0
BACKLIGHT_OFF == 1
GROUP_ID == 0
\* ColorTemperatureMode.USER2
USER2 == 18
\* "no change" marker of the volume and video-parameter messages
NO_CHANGE == 255
\* Python's None where an integer may stand (SicpResponse.command, an omitted
\* volume level, an absent argument)
NoneInt == -1

Byte == 0..255

\* The remaining opcodes and flag values of messages.py.
CMD_BACKLIGHT_GET == 113
CMD_INPUT_SOURCE_SET == 172
CMD_CURRENT_SOURCE_GET == 173
CMD_ANDROID_4K_GET == 198
CMD_ANDROID_4K_SET == 199
CMD_WOL_GET == 156
CMD_WOL_SET == 157
CMD_IP_PARAMETER_GET == 130
CMD_COLD_START_SET == 163
CMD_COLD_START_GET == 164
CMD_TEMPERATURE_GET == 47
CMD_SICP_INFO_GET == 162
CMD_MODEL_INFO_GET == 161
CMD_SERIAL_GET == 21
CMD_VIDEO_SIGNAL_GET == 89
CMD_AV_MUTE_GET == 122
CMD_AV_MUTE_SET == 123
CMD_PICTURE_STYLE_GET == 101
CMD_PICTURE_STYLE_SET == 102
CMD_VIDEO_PARAMETERS_SET == 50
CMD_VIDEO_PARAMETERS_GET == 51
CMD_COLOR_TEMPERATURE_GET == 53
CMD_COLOR_TEMPERATURE_FINE_GET == 18
CMD_TEST_PATTERN_GET == 108
CMD_TEST_PATTERN_SET == 109
CMD_REMOTE_LOCK_SET == 28
CMD_REMOTE_LOCK_GET == 29
CMD_REMOTE_CONTROL_SIM == 254
CMD_POWER_ON_LOGO_SET == 62
CMD_POWER_ON_LOGO_GET == 63
CMD_OSD_INFO_GET == 45
CMD_AUTO_SIGNAL_GET == 175
CMD_GROUP_ID_GET == 93
CMD_POWER_SAVE_SET == 210
CMD_POWER_SAVE_GET == 211
CMD_SMART_POWER_SET == 221
CMD_APM_SET == 208
CMD_APM_GET == 209
CMD_MUTE_GET == 70
CMD_MUTE_SET == 71
ANDROID_4K_DISABLED == 0
ANDROID_4K_ENABLED == 1
WOL_DISABLED == 0
WOL_ENABLED == 1

----------------------------------------------------------------------------
(* Wire format. *)

RECURSIVE BitXor(_, _)
\* Python's a ^ b on two naturals.
BitXor(a, b) ==
    IF a = 0 THEN b
    ELSE IF b = 0 THEN a
    ELSE (((a % 2) + (b % 2)) % 2) + (2 * BitXor(a \div 2, b \div 2))

\* a ^ b for two bytes, tabulated once.
XorByte == [a \in 0..255 |-> [b \in 0..255 |-> BitXor(a, b)]]

\* The value of checksum after the first n passes of "checksum ^= byte", for
\* a list of bytes.
RECURSIVE ChecksumAfter(_, _)
ChecksumAfter(bytes_list, n) ==
    IF n = 0 THEN 0
    ELSE XorByte[ChecksumAfter(bytes_list, n - 1)][bytes_list[n]]

\* The same for a list holding an integer that is no byte.
RECURSIVE ChecksumAfterAnyInt(_, _)
ChecksumAfterAnyInt(ints, n) ==
    IF n = 0 THEN 0
    ELSE BitXor(ChecksumAfterAnyInt(ints, n - 1), ints[n])

\* XOR of all bytes of the list.
calculate_checksum(bytes_list) ==
    IF \A i \in 1..Len(bytes_list) : bytes_list[i] \in 0..255
        THEN ChecksumAfter(bytes_list, Len(bytes_list))
        ELSE ChecksumAfterAnyInt(bytes_list, Len(bytes_list))

\* [size, monitor_id, group, command, params..., checksum]
construct_message(mid, command, params) ==
    LET body == <<4 + Len(params) + 1, mid, GROUP_ID, command>> \o params
    IN  body \o <<calculate_checksum(body)>>

\* speaker / audio-out levels; an omitted level (None) travels as 0xFF.
build_volume_set_message(mid, speaker_level, audio_out_level) ==
    LET speaker == IF speaker_level = NoneInt THEN NO_CHANGE ELSE speaker_level
        audio == IF audio_out_level = NoneInt THEN NO_CHANGE ELSE audio_out_level
        body == <<7, mid, GROUP_ID, CMD_VOLUME_SET, speaker, audio>>
    IN  body \o <<calculate_checksum(body)>>

----------------------------------------------------------------------------
(* Message builders (messages.py).  Each builder hands the bytes before the
   checksum to calculate_checksum and returns them followed by the result; a
   flag argument is a BOOLEAN. *)

\* The bytes followed by their sum modulo 256 instead of their XOR.
WithAdditiveChecksum(body) ==
    LET RECURSIVE Sum(_)
        Sum(b) == IF b = <<>> THEN 0 ELSE Head(b) + Sum(Tail(b))
    IN  body \o <<Sum(body) % 256>>

\* checksum = calculate_checksum(...); return bytes([..., checksum])
WithChecksum(body) == body \o <<calculate_checksum(body)>>

build_power_message(mid, power_on) ==
    WithChecksum(<<6, mid, GROUP_ID,
                   CMD_POWER_STATE_SET, IF power_on THEN POWER_ON ELSE POWER_OFF>>)

build_power_get_message(mid) ==
    WithChecksum(<<5, mid, GROUP_ID, CMD_POWER_STATE_GET>>)

build_cold_start_get_message(mid) ==
    WithChecksum(<<5, mid, GROUP_ID, CMD_COLD_START_GET>>)

build_cold_start_set_message(mid, cold_state) ==
    WithChecksum(<<6, mid, GROUP_ID, CMD_COLD_START_SET, cold_state>>)

build_temperature_get_message(mid) ==
    WithChecksum(<<5, mid, GROUP_ID, CMD_TEMPERATURE_GET>>)

build_sicp_info_get_message(mid, label_code) ==
    WithChecksum(<<6, mid, GROUP_ID, CMD_SICP_INFO_GET, label_code>>)

build_serial_get_message(mid) ==
    WithChecksum(<<5, mid, GROUP_ID, CMD_SERIAL_GET>>)

\* The video-parameters builder with msg_size one short of the bytes it returns.
build_video_parameters_set_message_short_size(mid, brightness, color, contrast, sharpness, tint, black_level, gamma) ==
    WithChecksum(<<11, mid, GROUP_ID, CMD_VIDEO_PARAMETERS_SET,
                   brightness % 256, color % 256, contrast % 256,
                   sharpness % 256, tint % 256, black_level % 256, gamma % 256>>)

build_video_parameters_set_message(mid, brightness, color, contrast, sharpness, tint, black_level, gamma) ==
    WithChecksum(<<12, mid, GROUP_ID, CMD_VIDEO_PARAMETERS_SET,
                   brightness % 256, color % 256, contrast % 256,
                   sharpness % 256, tint % 256, black_level % 256, gamma % 256>>)

build_video_parameters_get_message(mid) ==
    WithChecksum(<<5, mid, GROUP_ID, CMD_VIDEO_PARAMETERS_GET>>)

build_color_temperature_set_message(mid, mode_code) ==
    WithChecksum(<<6, mid, GROUP_ID, CMD_COLOR_TEMPERATURE_SET, mode_code>>)

build_color_temperature_get_message(mid) ==
    WithChecksum(<<5, mid, GROUP_ID, CMD_COLOR_TEMPERATURE_GET>>)

build_color_temperature_fine_set_message(mid, step_value) ==
    WithChecksum(<<6, mid, GROUP_ID, CMD_COLOR_TEMPERATURE_FINE_SET, step_value>>)

build_color_temperature_fine_get_message(mid) ==
    WithChecksum(<<5, mid, GROUP_ID, CMD_COLOR_TEMPERATURE_FINE_GET>>)

build_video_signal_get_message(mid) ==
    WithChecksum(<<5, mid, GROUP_ID, CMD_VIDEO_SIGNAL_GET>>)

build_av_mute_get_message(mid) ==
    WithChecksum(<<5, mid, GROUP_ID, CMD_AV_MUTE_GET>>)

build_av_mute_set_message(mid, mute_on) ==
    WithChecksum(<<6, mid, GROUP_ID, CMD_AV_MUTE_SET, IF mute_on THEN 1 ELSE 0>>)

build_picture_style_get_message(mid) ==
    WithChecksum(<<5, mid, GROUP_ID, CMD_PICTURE_STYLE_GET>>)

build_picture_style_set_message(mid, style_code) ==
    WithChecksum(<<6, mid, GROUP_ID, CMD_PICTURE_STYLE_SET, style_code>>)

build_test_pattern_get_message(mid) ==
    WithChecksum(<<5, mid, GROUP_ID, CMD_TEST_PATTERN_GET>>)

build_test_pattern_set_message(mid, pattern_code) ==
    WithChecksum(<<6, mid, GROUP_ID, CMD_TEST_PATTERN_SET, pattern_code>>)

build_remote_lock_get_message(mid) ==
    WithChecksum(<<5, mid, GROUP_ID, CMD_REMOTE_LOCK_GET>>)

build_remote_lock_set_message(mid, state_code) ==
    WithChecksum(<<6, mid, GROUP_ID, CMD_REMOTE_LOCK_SET, state_code>>)

build_power_on_logo_get_message(mid) ==
    WithChecksum(<<5, mid, GROUP_ID, CMD_POWER_ON_LOGO_GET>>)

build_power_on_logo_set_message(mid, mode_code) ==
    WithChecksum(<<6, mid, GROUP_ID, CMD_POWER_ON_LOGO_SET, mode_code>>)

build_osd_info_get_message(mid) ==
    WithChecksum(<<5, mid, GROUP_ID, CMD_OSD_INFO_GET>>)

build_osd_info_set_message(mid, timeout_code) ==
    WithChecksum(<<6, mid, GROUP_ID, CMD_OSD_INFO_SET, timeout_code>>)

build_auto_signal_get_message(mid) ==
    WithChecksum(<<5, mid, GROUP_ID, CMD_AUTO_SIGNAL_GET>>)

build_auto_signal_set_message(mid, mode_code) ==
    WithChecksum(<<6, mid, GROUP_ID, CMD_AUTO_SIGNAL_SET, mode_code>>)

build_remote_key_simulation_message(mid, key_code) ==
    WithChecksum(<<7, mid, GROUP_ID, CMD_REMOTE_CONTROL_SIM, key_code, 0>>)

build_group_id_get_message(mid) ==
    WithChecksum(<<5, mid, GROUP_ID, CMD_GROUP_ID_GET>>)

build_group_id_set_message(mid, group_id) ==
    WithChecksum(<<6, mid, GROUP_ID, CMD_GROUP_ID_SET, group_id>>)

build_monitor_id_set_message(mid, new_monitor_id) ==
    WithChecksum(<<6, mid, GROUP_ID, CMD_MONITOR_ID_SET, new_monitor_id>>)

build_power_save_get_message(mid) ==
    WithChecksum(<<5, mid, GROUP_ID, CMD_POWER_SAVE_GET>>)

build_power_save_set_message(mid, mode_code) ==
    WithChecksum(<<6, mid, GROUP_ID, CMD_POWER_SAVE_SET, mode_code>>)

build_smart_power_get_message(mid) ==
    WithChecksum(<<5, mid, GROUP_ID, CMD_SMART_POWER_GET>>)

build_smart_power_set_message(mid, level_code) ==
    WithChecksum(<<6, mid, GROUP_ID, CMD_SMART_POWER_SET, level_code>>)

build_apm_get_message(mid) ==
    WithChecksum(<<5, mid, GROUP_ID, CMD_APM_GET>>)

build_apm_set_message(mid, mode_code) ==
    WithChecksum(<<6, mid, GROUP_ID, CMD_APM_SET, mode_code>>)

build_model_info_get_message(mid, label_code) ==
    WithChecksum(<<6, mid, GROUP_ID, CMD_MODEL_INFO_GET, label_code>>)

build_backlight_set_message(mid, backlight_on) ==
    WithChecksum(<<6, mid, GROUP_ID,
                   CMD_BACKLIGHT_SET, IF backlight_on THEN BACKLIGHT_ON ELSE BACKLIGHT_OFF>>)

build_backlight_get_message(mid) ==
    WithChecksum(<<5, mid, GROUP_ID, CMD_BACKLIGHT_GET>>)

build_volume_get_message(mid) ==
    WithChecksum(<<5, mid, GROUP_ID, CMD_VOLUME_GET>>)

build_mute_get_message(mid) ==
    WithChecksum(<<5, mid, GROUP_ID, CMD_MUTE_GET>>)

build_mute_set_message(mid, mute_on) ==
    WithChecksum(<<6, mid, GROUP_ID, CMD_MUTE_SET, IF mute_on THEN 1 ELSE 0>>)

build_android_4k_set_message(mid, enable_4k) ==
    WithChecksum(<<6, mid, GROUP_ID,
                   CMD_ANDROID_4K_SET, IF enable_4k THEN ANDROID_4K_ENABLED ELSE ANDROID_4K_DISABLED>>)

build_android_4k_get_message(mid) ==
    WithChecksum(<<5, mid, GROUP_ID, CMD_ANDROID_4K_GET>>)

build_wol_get_message(mid) ==
    WithChecksum(<<5, mid, GROUP_ID, CMD_WOL_GET>>)

build_wol_set_message(mid, enable_wol) ==
    WithChecksum(<<6, mid, GROUP_ID,
                   CMD_WOL_SET, IF enable_wol THEN WOL_ENABLED ELSE WOL_DISABLED>>)

build_ip_parameter_get_message(mid, parameter_code, value_type_code) ==
    WithChecksum(<<7, mid, GROUP_ID,
                   CMD_IP_PARAMETER_GET, parameter_code, value_type_code>>)

build_input_source_message(mid, input_source_code, playlist, osd_style, effect_duration) ==
    WithChecksum(<<9, mid, GROUP_ID, CMD_INPUT_SOURCE_SET,
                   input_source_code, playlist, osd_style, effect_duration>>)

build_get_input_source_message(mid) ==
    WithChecksum(<<5, mid, GROUP_ID, CMD_CURRENT_SOURCE_GET>>)

\* Every builder of messages.py.
BuilderNames ==
    {"build_power_message", "build_power_get_message",
     "build_cold_start_get_message", "build_cold_start_set_message",
     "build_temperature_get_message", "build_sicp_info_get_message",
     "build_serial_get_message", "build_video_parameters_set_message",
     "build_video_parameters_get_message",
     "build_color_temperature_set_message",
     "build_color_temperature_get_message",
     "build_color_temperature_fine_set_message",
     "build_color_temperature_fine_get_message",
     "build_video_signal_get_message", "build_av_mute_get_message",
     "build_av_mute_set_message", "build_picture_style_get_message",
     "build_picture_style_set_message", "build_test_pattern_get_message",
     "build_test_pattern_set_message", "build_remote_lock_get_message",
     "build_remote_lock_set_message", "build_power_on_logo_get_message",
     "build_power_on_logo_set_message", "build_osd_info_get_message",
     "build_osd_info_set_message", "build_auto_signal_get_message",
     "build_auto_signal_set_message", "build_remote_key_simulation_message",
     "build_group_id_get_message", "build_group_id_set_message",
     "build_monitor_id_set_message", "build_power_save_get_message",
     "build_power_save_set_message", "build_smart_power_get_message",
     "build_smart_power_set_message", "build_apm_get_message",
     "build_apm_set_message", "build_model_info_get_message",
     "build_backlight_set_message", "build_backlight_get_message",
     "build_volume_get_message", "build_volume_set_message",
     "build_mute_get_message", "build_mute_set_message",
     "build_android_4k_set_message", "build_android_4k_get_message",
     "build_wol_get_message", "build_wol_set_message",
     "build_ip_parameter_get_message", "build_input_source_message",
     "build_get_input_source_message"}

\* The builders taking one argument besides the device id, and those taking two.
OneArgBuilders ==
    {"build_power_message", "build_cold_start_set_message",
     "build_sicp_info_get_message", "build_color_temperature_set_message",
     "build_color_temperature_fine_set_message", "build_av_mute_set_message",
     "build_picture_style_set_message", "build_test_pattern_set_message",
     "build_remote_lock_set_message", "build_power_on_logo_set_message",
     "build_osd_info_set_message", "build_auto_signal_set_message",
     "build_remote_key_simulation_message", "build_group_id_set_message",
     "build_monitor_id_set_message", "build_power_save_set_message",
     "build_smart_power_set_message", "build_apm_set_message",
     "build_model_info_get_message", "build_backlight_set_message",
     "build_mute_set_message", "build_android_4k_set_message",
     "build_wol_set_message"}
TwoArgBuilders ==
    {"build_video_parameters_set_message", "build_volume_set_message",
     "build_ip_parameter_get_message", "build_input_source_message"}

\* The builder called name applied to the device id and to its arguments p, q
\* (a flag is passed as p # 0; what a builder does not take is ignored; the
\* trailing arguments of the two long builders keep their defaults).
ApplyBuilder(name, mid, p, q) ==
    CASE name = "build_power_message" ->
            build_power_message(mid, p # 0)
      [] name = "build_power_get_message" ->
            build_power_get_message(mid)
      [] name = "build_cold_start_get_message" ->
            build_cold_start_get_message(mid)
      [] name = "build_cold_start_set_message" ->
            build_cold_start_set_message(mid, p)
      [] name = "build_temperature_get_message" ->
            build_temperature_get_message(mid)
      [] name = "build_sicp_info_get_message" ->
            build_sicp_info_get_message(mid, p)
      [] name = "build_serial_get_message" ->
            build_serial_get_message(mid)
      [] name = "build_video_parameters_set_message" ->
            build_video_parameters_set_message(mid, p, q, 255, 255, 255, 255, 255)
      [] name = "build_video_parameters_get_message" ->
            build_video_parameters_get_message(mid)
      [] name = "build_color_temperature_set_message" ->
            build_color_temperature_set_message(mid, p)
      [] name = "build_color_temperature_get_message" ->
            build_color_temperature_get_message(mid)
      [] name = "build_color_temperature_fine_set_message" ->
            build_color_temperature_fine_set_message(mid, p)
      [] name = "build_color_temperature_fine_get_message" ->
            build_color_temperature_fine_get_message(mid)
      [] name = "build_video_signal_get_message" ->
            build_video_signal_get_message(mid)
      [] name = "build_av_mute_get_message" ->
            build_av_mute_get_message(mid)
      [] name = "build_av_mute_set_message" ->
            build_av_mute_set_message(mid, p # 0)
      [] name = "build_picture_style_get_message" ->
            build_picture_style_get_message(mid)
      [] name = "build_picture_style_set_message" ->
            build_picture_style_set_message(mid, p)
      [] name = "build_test_pattern_get_message" ->
            build_test_pattern_get_message(mid)
      [] name = "build_test_pattern_set_message" ->
            build_test_pattern_set_message(mid, p)
      [] name = "build_remote_lock_get_message" ->
            build_remote_lock_get_message(mid)
      [] name = "build_remote_lock_set_message" ->
            build_remote_lock_set_message(mid, p)
      [] name = "build_power_on_logo_get_message" ->
            build_power_on_logo_get_message(mid)
      [] name = "build_power_on_logo_set_message" ->
            build_power_on_logo_set_message(mid, p)
      [] name = "build_osd_info_get_message" ->
            build_osd_info_get_message(mid)
      [] name = "build_osd_info_set_message" ->
            build_osd_info_set_message(mid, p)
      [] name = "build_auto_signal_get_message" ->
            build_auto_signal_get_message(mid)
      [] name = "build_auto_signal_set_message" ->
            build_auto_signal_set_message(mid, p)
      [] name = "build_remote_key_simulation_message" ->
            build_remote_key_simulation_message(mid, p)
      [] name = "build_group_id_get_message" ->
            build_group_id_get_message(mid)
      [] name = "build_group_id_set_message" ->
            build_group_id_set_message(mid, p)
      [] name = "build_monitor_id_set_message" ->
            build_monitor_id_set_message(mid, p)
      [] name = "build_power_save_get_message" ->
            build_power_save_get_message(mid)
      [] name = "build_power_save_set_message" ->
            build_power_save_set_message(mid, p)
      [] name = "build_smart_power_get_message" ->
            build_smart_power_get_message(mid)
      [] name = "build_smart_power_set_message" ->
            build_smart_power_set_message(mid, p)
      [] name = "build_apm_get_message" ->
            build_apm_get_message(mid)
      [] name = "build_apm_set_message" ->
            build_apm_set_message(mid, p)
      [] name = "build_model_info_get_message" ->
            build_model_info_get_message(mid, p)
      [] name = "build_backlight_set_message" ->
            build_backlight_set_message(mid, p # 0)
      [] name = "build_backlight_get_message" ->
            build_backlight_get_message(mid)
      [] name = "build_volume_get_message" ->
            build_volume_get_message(mid)
      [] name = "build_volume_set_message" ->
            build_volume_set_message(mid, p, q)
      [] name = "build_mute_get_message" ->
            build_mute_get_message(mid)
      [] name = "build_mute_set_message" ->
            build_mute_set_message(mid, p # 0)
      [] name = "build_android_4k_set_message" ->
            build_android_4k_set_message(mid, p # 0)
      [] name = "build_android_4k_get_message" ->
            build_android_4k_get_message(mid)
      [] name = "build_wol_get_message" ->
            build_wol_get_message(mid)
      [] name = "build_wol_set_message" ->
            build_wol_set_message(mid, p # 0)
      [] name = "build_ip_parameter_get_message" ->
            build_ip_parameter_get_message(mid, p, q)
      [] name = "build_input_source_message" ->
            build_input_source_message(mid, p, q, 1, 0)
      [] name = "build_get_input_source_message" ->
            build_get_input_source_message(mid)

----------------------------------------------------------------------------
(* Response classifier: SicpResponse.__init__. *)

\* The fields as __init__ sets them before looking at the data.
BlankResponse ==
    [valid |-> FALSE, is_ack |-> FALSE, is_nav |-> FALSE, is_nack |-> FALSE,
     is_data_response |-> FALSE, command |-> NoneInt, data_payload |-> <<>>]

\* A mis-sliced payload that keeps the checksum byte: data[4:].
PayloadSliceKeepChecksum(data) == SubSeq(data, 5, Len(data))

\* Python's data[4:-1].
PayloadSlice(data) == SubSeq(data, 5, Len(data) - 1)

SicpResponse(data) ==
    IF Len(data) < 5 THEN BlankResponse
    ELSE IF Len(data) >= 6 /\ data[4] = CMD_COMMUNICATION_CONTROL THEN
        LET response_code == data[5]
            base == [BlankResponse EXCEPT !.command = CMD_COMMUNICATION_CONTROL]
        IN  IF response_code = RESPONSE_ACK
                THEN [base EXCEPT !.is_ack = TRUE, !.valid = TRUE]
            ELSE IF response_code = RESPONSE_NAV
                THEN [base EXCEPT !.is_nav = TRUE, !.valid = TRUE]
            ELSE IF response_code = RESPONSE_NACK
                THEN [base EXCEPT !.is_nack = TRUE, !.valid = TRUE]
            ELSE base
    ELSE [BlankResponse EXCEPT !.is_data_response = TRUE, !.valid = TRUE,
                               !.command = data[4],
                               !.data_payload = PayloadSlice(data)]

----------------------------------------------------------------------------
(* Command engine, pure parts: arguments, validation, request building.    *)

\* The sets taking a boolean, sent as 0x01 for True and 0x00 for False.
FlagSetOps == {"set_android_4k_state", "set_av_mute", "set_mute", "set_wol"}
\* The sets taking an enumeration member, sent as its value.
EnumSetOps == {"set_apm_mode", "set_cold_start_power_state", "set_picture_style",
               "set_power_on_logo_mode", "set_power_save_mode",
               "set_remote_lock_state", "set_smart_power_level", "set_test_pattern"}

SetOps == {"set_power", "set_backlight", "set_volume", "set_osd_info_timeout",
           "set_auto_signal_mode", "set_group_id", "set_monitor_id",
           "set_color_temperature_mode", "set_precise_color_temperature",
           "set_brightness_level", "set_input_source", "simulate_remote_key"}
              \cup FlagSetOps \cup EnumSetOps

\* The opcode each flag set and each enumeration set sends.
SetCommand(op) ==
    CASE op = "set_android_4k_state" -> CMD_ANDROID_4K_SET
      [] op = "set_av_mute" -> CMD_AV_MUTE_SET
      [] op = "set_mute" -> CMD_MUTE_SET
      [] op = "set_wol" -> CMD_WOL_SET
      [] op = "set_apm_mode" -> CMD_APM_SET
      [] op = "set_cold_start_power_state" -> CMD_COLD_START_SET
      [] op = "set_picture_style" -> CMD_PICTURE_STYLE_SET
      [] op = "set_power_on_logo_mode" -> CMD_POWER_ON_LOGO_SET
      [] op = "set_power_save_mode" -> CMD_POWER_SAVE_SET
      [] op = "set_remote_lock_state" -> CMD_REMOTE_LOCK_SET
      [] op = "set_smart_power_level" -> CMD_SMART_POWER_SET
      [] op = "set_test_pattern" -> CMD_TEST_PATTERN_SET

\* The gets that decode payload byte 0 as a member of an enumeration.
EnumGetOps == {"get_power_state", "get_cold_start_power_state", "get_picture_style",
               "get_color_temperature_mode", "get_test_pattern",
               "get_remote_lock_state", "get_power_on_logo_mode",
               "get_auto_signal_mode", "get_power_save_mode",
               "get_smart_power_level", "get_apm_mode", "get_input_source"}
\* The gets that return payload byte 0 as it is.
ByteGetOps == {"get_brightness_level", "get_osd_info_timeout", "get_group_id"}
\* The gets that compare payload byte 0 with one value.
FlagGetOps == {"get_backlight_state", "get_video_signal_status",
               "get_android_4k_state", "get_wake_on_lan", "get_mute", "get_av_mute"}
\* The gets that return the printable characters of the payload.
TextGetOps == {"get_serial_number", "get_model_info", "get_sicp_info"}

\* Every get of the engine.
GetOps == EnumGetOps \cup ByteGetOps \cup FlagGetOps \cup TextGetOps
              \cup {"get_volume", "get_temperature", "get_precise_color_temperature",
                    "get_ip_parameter"}
Ops == SetOps \cup GetOps

\* The opcode each get sends.
GetCommand(op) ==
    CASE op = "get_power_state" -> CMD_POWER_STATE_GET
      [] op = "get_cold_start_power_state" -> CMD_COLD_START_GET
      [] op = "get_picture_style" -> CMD_PICTURE_STYLE_GET
      [] op = "get_color_temperature_mode" -> CMD_COLOR_TEMPERATURE_GET
      [] op = "get_test_pattern" -> CMD_TEST_PATTERN_GET
      [] op = "get_remote_lock_state" -> CMD_REMOTE_LOCK_GET
      [] op = "get_power_on_logo_mode" -> CMD_POWER_ON_LOGO_GET
      [] op = "get_auto_signal_mode" -> CMD_AUTO_SIGNAL_GET
      [] op = "get_power_save_mode" -> CMD_POWER_SAVE_GET
      [] op = "get_smart_power_level" -> CMD_SMART_POWER_GET
      [] op = "get_apm_mode" -> CMD_APM_GET
      [] op = "get_input_source" -> CMD_CURRENT_SOURCE_GET
      [] op = "get_brightness_level" -> CMD_VIDEO_PARAMETERS_GET
      [] op = "get_osd_info_timeout" -> CMD_OSD_INFO_GET
      [] op = "get_group_id" -> CMD_GROUP_ID_GET
      [] op = "get_backlight_state" -> CMD_BACKLIGHT_GET
      [] op = "get_video_signal_status" -> CMD_VIDEO_SIGNAL_GET
      [] op = "get_android_4k_state" -> CMD_ANDROID_4K_GET
      [] op = "get_wake_on_lan" -> CMD_WOL_GET
      [] op = "get_mute" -> CMD_MUTE_GET
      [] op = "get_av_mute" -> CMD_AV_MUTE_GET
      [] op = "get_serial_number" -> CMD_SERIAL_GET
      [] op = "get_model_info" -> CMD_MODEL_INFO_GET
      [] op = "get_sicp_info" -> CMD_SICP_INFO_GET
      [] op = "get_volume" -> CMD_VOLUME_GET
      [] op = "get_temperature" -> CMD_TEMPERATURE_GET
      [] op = "get_precise_color_temperature" -> CMD_COLOR_TEMPERATURE_FINE_GET
      [] op = "get_ip_parameter" -> CMD_IP_PARAMETER_GET

\* The codes of each enumeration, and the enumeration's name.
KnownCodes(op) ==
    CASE op = "get_power_state" -> {POWER_OFF, POWER_ON}
      [] op = "get_cold_start_power_state" -> 0..2
      [] op = "get_picture_style" -> 0..10
      [] op = "get_color_temperature_mode" -> (0..16) \cup {USER2}
      [] op = "get_test_pattern" -> 0..11
      [] op = "get_remote_lock_state" -> 1..7
      [] op = "get_power_on_logo_mode" -> 0..2
      [] op = "get_auto_signal_mode" -> 0..5
      [] op = "get_power_save_mode" -> 0..7
      [] op = "get_smart_power_level" -> 0..3
      [] op = "get_apm_mode" -> 0..3
      [] op = "get_input_source" -> (0..19) \cup (22..38)

EnumName(op) ==
    CASE op = "get_power_state" -> "PowerState"
      [] op = "get_cold_start_power_state" -> "ColdStartPowerState"
      [] op = "get_picture_style" -> "PictureStyle"
      [] op = "get_color_temperature_mode" -> "ColorTemperatureMode"
      [] op = "get_test_pattern" -> "TestPattern"
      [] op = "get_remote_lock_state" -> "RemoteLockState"
      [] op = "get_power_on_logo_mode" -> "PowerOnLogoMode"
      [] op = "get_auto_signal_mode" -> "AutoSignalMode"
      [] op = "get_power_save_mode" -> "PowerSaveMode"
      [] op = "get_smart_power_level" -> "SmartPowerLevel"
      [] op = "get_apm_mode" -> "ApmMode"
      [] op = "get_input_source" -> "InputSource"

\* The value a flag get compares payload byte 0 with.
FlagValue(op) == IF op = "get_backlight_state" THEN BACKLIGHT_ON ELSE 1

\* The operations whose whole body is: build one request, send it, report
\* "response and response.is_ack".
SingleCommandSets == SetOps \ {"set_monitor_id", "set_precise_color_temperature"}

\* The arguments a caller passes, per operation (booleans as 0/1, an absent
\* argument as NoneInt).
ArgsA(op) ==
    CASE op \in {"set_power", "set_backlight"} \cup FlagSetOps -> {0, 1}
      [] op = "set_apm_mode" -> {0, 3}
      [] op = "set_cold_start_power_state" -> {0, 2}
      [] op = "set_picture_style" -> {0, 10}
      [] op = "set_power_on_logo_mode" -> {0, 2}
      [] op = "set_power_save_mode" -> {0, 7}
      [] op = "set_remote_lock_state" -> {1, 7}
      [] op = "set_smart_power_level" -> {0, 3}
      [] op = "set_test_pattern" -> {0, 11}
      [] op = "set_input_source" -> {0, 13}
      [] op = "simulate_remote_key" -> {16, 190}
      [] op = "set_volume" -> {NoneInt, -5, 0, 30, 100, 101}
      [] op = "set_osd_info_timeout" -> {0, 60, 61}
      [] op = "set_auto_signal_mode" -> {0, 5, 6}
      [] op = "set_group_id" -> {0, 1, 255, 256}
      [] op = "set_monitor_id" -> {0, 1, 2, 255, 256}
      [] op = "set_color_temperature_mode" -> {6, USER2}
      [] op = "set_precise_color_temperature" -> {1850, 2050, 6530, 6580, 12000}
      [] op = "set_brightness_level" -> {-5, 0, 50, 100, 150}
      [] op \in {"get_model_info", "get_sicp_info"} -> {0, 1}
      [] op = "get_ip_parameter" -> {1, 6}
      [] OTHER -> {NoneInt}

ArgsB(op) ==
    CASE op = "set_volume" -> {NoneInt, 40, 150}
      [] op = "set_input_source" -> {NoneInt, 2}
      [] op = "get_ip_parameter" -> {1}
      [] OTHER -> {NoneInt}

\* TRUE when the operation raises ValueError on its argument check.
\* The range checks without those of set_volume.
ValidationErrorVolumeUnchecked(op, a, b) ==
    CASE op = "set_osd_info_timeout" -> ~(0 <= a /\ a <= 60)
      [] op = "set_auto_signal_mode" -> ~(0 <= a /\ a <= 5)
      [] op = "set_group_id" -> ~((1 <= a /\ a <= 254) \/ a = 255)
      [] op = "set_monitor_id" -> ~(1 <= a /\ a <= 255)
      [] OTHER -> FALSE

ValidationError(op, a, b) ==
    CASE op = "set_volume" ->
            \/ (a # NoneInt /\ ~(0 <= a /\ a <= 100))
            \/ (b # NoneInt /\ ~(0 <= b /\ b <= 100))
      [] op = "set_osd_info_timeout" -> ~(0 <= a /\ a <= 60)
      [] op = "set_auto_signal_mode" -> ~(0 <= a /\ a <= 5)
      [] op = "set_group_id" -> ~((1 <= a /\ a <= 254) \/ a = 255)
      [] op = "set_monitor_id" -> ~(1 <= a /\ a <= 255)
      [] OTHER -> FALSE

\* Python's round() of kelvin / 100.0: to nearest, a tie to the even neighbour.
RoundHundredth(kelvin_int) ==
    LET q == kelvin_int \div 100
        r == kelvin_int % 100
    IN  IF r < 50 THEN q
        ELSE IF r > 50 THEN q + 1
        ELSE IF q % 2 = 0 THEN q ELSE q + 1

Max(x, y) == IF x >= y THEN x ELSE y
Min(x, y) == IF x <= y THEN x ELSE y

\* The conversion without "step = max(20, min(100, step))".
coerce_kelvin_to_step_value_unclamped(kelvin_value) ==
    LET step == RoundHundredth(kelvin_value)
    IN  <<step, step * 100>>

\* <<step, resolved_kelvin>>
coerce_kelvin_to_step_value(kelvin_value) ==
    LET step == Max(20, Min(100, RoundHundredth(kelvin_value)))
    IN  <<step, step * 100>>

\* set_brightness_level passing the caller's value on as it is.
clamped_value_unclamped(brightness_value) == brightness_value

\* set_brightness_level: clamped_value = max(0, min(100, brightness_value)).
clamped_value(brightness_value) == Max(0, Min(100, brightness_value))

\* The request each operation builds with the engine's current monitor_id.
RequestOf(op, a, b, mid) ==
    CASE op = "set_power" ->
            construct_message(mid, CMD_POWER_STATE_SET,
                              <<IF a = 1 THEN POWER_ON ELSE POWER_OFF>>)
      [] op = "set_backlight" ->
            construct_message(mid, CMD_BACKLIGHT_SET,
                              <<IF a = 1 THEN BACKLIGHT_ON ELSE BACKLIGHT_OFF>>)
      [] op \in FlagSetOps ->
            construct_message(mid, SetCommand(op), <<IF a = 1 THEN 1 ELSE 0>>)
      [] op \in EnumSetOps -> construct_message(mid, SetCommand(op), <<a>>)
      [] op = "set_input_source" ->
            \* input_source.value, playlist (default 0), osd_style=1, effect_duration=0
            construct_message(mid, CMD_INPUT_SOURCE_SET,
                              <<a, IF b = NoneInt THEN 0 ELSE b, 1, 0>>)
      [] op = "simulate_remote_key" ->
            \* key_code.value, reserved = 0x00
            construct_message(mid, CMD_REMOTE_CONTROL_SIM, <<a, 0>>)
      [] op = "set_volume" -> build_volume_set_message(mid, a, b)
      [] op = "set_osd_info_timeout" -> construct_message(mid, CMD_OSD_INFO_SET, <<a>>)
      [] op = "set_auto_signal_mode" -> construct_message(mid, CMD_AUTO_SIGNAL_SET, <<a>>)
      [] op = "set_group_id" -> construct_message(mid, CMD_GROUP_ID_SET, <<a>>)
      [] op = "set_monitor_id" -> construct_message(mid, CMD_MONITOR_ID_SET, <<a>>)
      [] op = "set_color_temperature_mode" ->
            construct_message(mid, CMD_COLOR_TEMPERATURE_SET, <<a>>)
      [] op = "set_precise_color_temperature" ->
            construct_message(mid, CMD_COLOR_TEMPERATURE_FINE_SET,
                              <<coerce_kelvin_to_step_value(a)[1]>>)
      [] op = "set_brightness_level" ->
            build_video_parameters_set_message(mid, clamped_value(a),
                                               255, 255, 255, 255, 255, 255)
      [] op \in {"get_model_info", "get_sicp_info"} ->
            construct_message(mid, GetCommand(op), <<a>>)
      [] op = "get_ip_parameter" ->
            construct_message(mid, GetCommand(op), <<a, b>>)
      [] op \in GetOps \ {"get_model_info", "get_sicp_info", "get_ip_parameter"} ->
            construct_message(mid, GetCommand(op), <<>>)

\* The expect_data argument each operation passes to send_message.
ExpectData(op) == op \in GetOps

----------------------------------------------------------------------------
(* The display, as the engine meets it on the wire. *)

\* A response frame: [size, id, 0x01, command, payload..., checksum].
Frame(mid, command, payload) ==
    LET body == <<4 + Len(payload) + 1, mid, 1, command>> \o payload
    IN  body \o <<calculate_checksum(body)>>

\* Data payloads a display may return for a get request with opcode c: the
\* value bytes alone, or preceded by the echoed opcode.
DataPayloads(c) ==
    CASE c = CMD_POWER_STATE_GET -> {<<POWER_OFF>>, <<POWER_ON>>, <<c, POWER_ON>>, <<9>>}
      [] c = CMD_SMART_POWER_GET -> {<<0>>, <<3>>, <<c, 2>>, <<7>>}
      [] c = CMD_VOLUME_GET ->
            {<<30, 40>>, <<30>>, <<c, 30, 40>>, <<c, 40>>, <<c, c, 40>>, <<100, 0>>}
      [] c = CMD_CURRENT_SOURCE_GET -> {<<13, 0, 1>>, <<c, 38>>, <<20>>, <<127, 0>>}
      [] c = CMD_TEMPERATURE_GET ->
            {<<22, 255, 19, 255>>, <<255, 255>>, <<255>>, <<c, 50, 255>>, <<c, 255>>,
             <<c>>, <<255, 31, 255, 30>>}
      [] c = CMD_COLOR_TEMPERATURE_FINE_GET ->
            {<<65>>, <<19>>, <<101>>, <<c, 20>>, <<c>>, <<100>>, <<c, 255>>}
      [] c = CMD_VIDEO_PARAMETERS_GET -> {<<80, 50, 50, 50, 50, 50, 50>>, <<c, 0>>, <<100>>}
      [] c \in {CMD_SERIAL_GET, CMD_MODEL_INFO_GET, CMD_SICP_INFO_GET} ->
            {<<65, 31, 126, 127, 32>>, <<c, 66>>, <<31>>}
      [] c \in {CMD_BACKLIGHT_GET, CMD_VIDEO_SIGNAL_GET, CMD_ANDROID_4K_GET,
                CMD_WOL_GET, CMD_MUTE_GET, CMD_AV_MUTE_GET} ->
            {<<0>>, <<1>>, <<c, 1>>, <<2>>}
      [] c = CMD_IP_PARAMETER_GET ->
            \* reported parameter, reported type, value: "192168001001",
            \* AA BB CC 11 22 33, "aabbcc112233", "010000000255", "1921680010"
            {<<c, 1, 1>> \o <<49, 57, 50, 49, 54, 56, 48, 48, 49, 48, 48, 49>>,
             <<1, 1>> \o <<49, 57, 50, 49, 54, 56, 48, 48, 49, 48, 48, 49>>,
             <<c, 6, 1, 170, 187, 204, 17, 34, 51>>,
             <<c, 7, 1>> \o <<97, 97, 98, 98, 99, 99, 49, 49, 50, 50, 51, 51>>,
             <<c, 3, 2>> \o <<48, 49, 48, 48, 48, 48, 48, 48, 48, 50, 53, 53>>,
             <<c, 1, 1>> \o <<49, 57, 50, 49, 54, 56, 48, 48, 49, 48>>,
             <<c, 2, 1, 255, 0>>,
             <<c, 1, 1>>,
             <<c, 1>>}
      [] OTHER -> {<<1>>, <<c, 2>>, <<127>>}

\* What the display may send back for a request: nothing at all (sent = FALSE),
\* or a buffer: empty (the peer closed), too short, a control frame, a data frame.
Answers(request) ==
    LET mid == request[2]
        c == request[4]
    IN  {[sent |-> FALSE, data |-> <<>>]}
        \cup {[sent |-> TRUE, data |-> d] :
                d \in {<<>>, <<5, mid, 1>>}
                      \cup {Frame(mid, CMD_COMMUNICATION_CONTROL, <<code>>) :
                                code \in {RESPONSE_ACK, RESPONSE_NAV, RESPONSE_NACK, 127}}
                      \cup {Frame(mid, c, pl) : pl \in DataPayloads(c) \cup {<<>>}}}

NoAnswer == [sent |-> FALSE, data |-> <<>>]

\* The display answered the request with Control(Ack).
IsAck(ans) ==
    /\ ans.sent
    /\ Len(ans.data) >= 6
    /\ ans.data[4] = CMD_COMMUNICATION_CONTROL
    /\ ans.data[5] = RESPONSE_ACK

----------------------------------------------------------------------------
(* Transport: SICPIPMonitor.send_message, pure parts. *)

\* The except clauses without the one for asyncio.TimeoutError: a timeout leaves
\* send_message as it was raised.
MapTransportErrorTimeoutUnmapped(kind) ==
    CASE kind = "timeout" -> "TimeoutError"
      [] kind = "oserror" -> "NetworkError"
      [] kind = "other" -> "Exception"

\* What the transport may raise inside the try block: asyncio.TimeoutError,
\* an OSError, or any other Exception (ValueError, EOFError, ...).
TransportFaults == {"timeout", "oserror", "other"}

\* The exception send_message raises for a failed connect, write or read:
\* "except asyncio.TimeoutError", "except OSError", "except Exception".
MapTransportError(kind) ==
    CASE kind = "timeout" -> "NetworkError"
      [] kind = "oserror" -> "NetworkError"
      [] kind = "other" -> "Exception"

\* Where control goes once the try block is left: the finally block closes the
\* writer when there is one, whatever exception exc is in flight ("none" for none).
\* The same with the close placed at the end of the try body instead of in the
\* finally block: an exception in flight skips it.
FinallyTargetOnSuccessOnly(w, exc) ==
    IF w # "none" /\ exc = "none" THEN "closing" ELSE "finishing"

FinallyTarget(w, exc) == IF w # "none" THEN "closing" ELSE "finishing"

\* The stripping without its "len(payload) > 1" condition.
StripEchoAnyLength(request, payload) ==
    IF Len(request) > 3 /\ payload # <<>> /\ payload[1] = request[4]
    THEN Tail(payload)
    ELSE payload

\* The stripping repeated for as long as the payload starts with the command.
RECURSIVE StripEchoRepeated(_, _)
StripEchoRepeated(request, payload) ==
    IF Len(request) > 3 /\ payload # <<>> /\ payload[1] = request[4] /\ Len(payload) > 1
    THEN StripEchoRepeated(request, Tail(payload))
    ELSE payload

\* Command-echo stripping on a data payload.
StripEcho(request, payload) ==
    IF /\ Len(request) > 3
       /\ payload # <<>>
       /\ payload[1] = request[4]
       /\ Len(payload) > 1
    THEN Tail(payload)
    ELSE payload

Raised(e) == [kind |-> "raise", err |-> e, none |-> FALSE, resp |-> BlankResponse]
ReturnedNone == [kind |-> "return", err |-> "", none |-> TRUE, resp |-> BlankResponse]
Returned(r) == [kind |-> "return", err |-> "", none |-> FALSE, resp |-> r]

\* send_message without its "if response.is_nav" test: a Control(NotSupported)
\* reply is handed back as a valid response with no payload.
SendOutcomeNavNotRaised(pend, expect, data, request) ==
    IF pend # "none" THEN Raised(pend)
    ELSE IF ~expect THEN ReturnedNone
    ELSE IF data = <<>> THEN Raised("ProtocolError")
    ELSE LET r == SicpResponse(data)
         IN  IF r.is_nack THEN Raised("ChecksumOrFormatError")
             ELSE IF ~r.valid THEN Raised("RuntimeError")
             ELSE Returned([r EXCEPT !.data_payload = StripEcho(request, r.data_payload)])

\* What send_message hands to its caller once the connection is dealt with.
SendOutcome(pend, expect, data, request) ==
    IF pend # "none" THEN Raised(pend)
    ELSE IF ~expect THEN ReturnedNone
    ELSE IF data = <<>> THEN Raised("ProtocolError")
    ELSE LET r == SicpResponse(data)
         IN  IF r.is_nav THEN Raised("NotSupportedOrNotAvailableError")
             ELSE IF r.is_nack THEN Raised("ChecksumOrFormatError")
             ELSE IF ~r.valid THEN Raised("RuntimeError")
             ELSE Returned([r EXCEPT !.data_payload = StripEcho(request, r.data_payload)])

----------------------------------------------------------------------------
(* Command engine: what each operation makes of send_message's outcome. *)

NoResult == [kind |-> "none", err |-> "", tag |-> "", val |-> <<>>]
ResRaise(e) == [kind |-> "raise", err |-> e, tag |-> "", val |-> <<>>]
ResReturn(tag, val) == [kind |-> "return", err |-> "", tag |-> tag, val |-> val]

\* Python's "response and response.is_ack".
AckResult(out) ==
    IF out.none THEN ResReturn("None", <<>>)
    ELSE ResReturn(IF out.resp.is_ack THEN "True" ELSE "False", <<>>)

\* set_monitor_id's "if response and response.is_ack".
MonitorIdAcked(out) == out.kind = "return" /\ ~out.none /\ out.resp.is_ack

\* The assignment moved out of the "if": the id is stored whatever the outcome.
StoredMonitorIdUnconditional(cur, new, out) == new

\* The stored device id after set_monitor_id(new) has seen send_message's outcome.
StoredMonitorId(cur, new, out) == IF MonitorIdAcked(out) THEN new ELSE cur

\* "not response or not response.data_payload"
NoPayload(out) == out.none \/ out.resp.data_payload = <<>>

\* "if 32 <= b <= 126": the bytes kept by the text gets.
Printable(b) == 32 <= b /\ b <= 126

\* The step multiplied by 100 whatever its value.
PreciseColorTemperatureAlwaysScaled(step_value) == step_value * 100

\* get_precise_color_temperature: "if 20 <= step_value <= 100: return
\* step_value * 100", else "return step_value".
PreciseColorTemperature(step_value) ==
    IF 20 <= step_value /\ step_value <= 100 THEN step_value * 100 ELSE step_value

\* get_temperature keeping every byte, 0xFF included.
SensorAlwaysPopulated(value) == TRUE

\* get_temperature skips a byte equal to 0xFF.
SensorPopulated(value) == value # 255

----------------------------------------------------------------------------
(* Text is a sequence of character codes. *)

\* str(n) for 0 <= n <= 999.
Str(n) ==
    IF n < 10 THEN <<48 + n>>
    ELSE IF n < 100 THEN <<48 + (n \div 10), 48 + (n % 10)>>
    ELSE <<48 + (n \div 100), 48 + ((n \div 10) % 10), 48 + (n % 10)>>

\* One digit of f"{b:02X}".
HexDigit(v) == IF v < 10 THEN 48 + v ELSE 55 + v

\* f"{b:02X}"
Hex02X(b) == <<HexDigit(b \div 16), HexDigit(b % 16)>>

\* The characters str.isdigit() accepts among the printable ASCII ones.
DigitChars == 48..57
\* string.hexdigits
HexDigitChars == DigitChars \cup (65..70) \cup (97..102)
\* str.upper() on one character.
Upper(c) == IF 97 <= c /\ c <= 122 THEN c - 32 ELSE c

\* sep.join(parts)
RECURSIVE Join(_, _)
Join(parts, sep) ==
    IF parts = <<>> THEN <<>>
    ELSE IF Len(parts) = 1 THEN parts[1]
    ELSE parts[1] \o <<sep>> \o Join(Tail(parts), sep)

\* ''.join(parts)
RECURSIVE Concat(_)
Concat(parts) == IF parts = <<>> THEN <<>> ELSE Head(parts) \o Concat(Tail(parts))

\* The octets kept with their leading zeros.
OctetsPadded(ascii_text) == [k \in 1..4 |-> SubSeq(ascii_text, 3 * k - 2, 3 * k)]

\* octets.append(str(int(ascii_text[i:i + 3])))
Octets(ascii_text) ==
    [k \in 1..4 |-> Str(100 * (ascii_text[3 * k - 2] - 48) + 10 * (ascii_text[3 * k - 1] - 48)
                        + (ascii_text[3 * k] - 48))]

\* The formatted text _format_ip_parameter_value returns first.
format_ip_parameter_value(parameter_code, value_bytes) ==
    LET ascii_text == SelectSeq(value_bytes, Printable)
        raw_hex == Concat([i \in 1..Len(value_bytes) |-> Hex02X(value_bytes[i])])
        twelve(chars) == Len(ascii_text) = 12 /\ \A i \in 1..12 : ascii_text[i] \in chars
    IN  IF parameter_code \in 1..5 /\ twelve(DigitChars)
            THEN Join(Octets(ascii_text), 46)
        ELSE IF parameter_code \in {6, 7} /\ Len(value_bytes) = 6
            THEN Join([i \in 1..6 |-> Hex02X(value_bytes[i])], 58)
        ELSE IF parameter_code \in {6, 7} /\ twelve(HexDigitChars)
            THEN Join([k \in 1..6 |-> <<Upper(ascii_text[2 * k - 1]), Upper(ascii_text[2 * k])>>], 58)
        ELSE IF ascii_text # <<>> THEN ascii_text
        ELSE IF value_bytes # <<>> THEN raw_hex
        ELSE <<40, 110, 111, 32, 100, 97, 116, 97, 41>>

OpResult(op, a, out) ==
    CASE op = "get_power_state" ->
            IF out.kind = "raise"
                THEN IF out.err = "NetworkError"
                        THEN ResReturn("PowerState.OFFLINE", <<>>)
                        ELSE ResRaise(out.err)
            ELSE IF NoPayload(out) THEN ResRaise("RuntimeError")
            ELSE IF out.resp.data_payload[1] \in {POWER_OFF, POWER_ON}
                THEN ResReturn("PowerState", <<out.resp.data_payload[1]>>)
            ELSE ResRaise("ValueError")
      [] op \in EnumGetOps \ {"get_power_state"} ->
            IF out.kind = "raise" THEN ResRaise(out.err)
            ELSE IF NoPayload(out) THEN ResRaise("RuntimeError")
            ELSE IF out.resp.data_payload[1] \in KnownCodes(op)
                THEN ResReturn(EnumName(op), <<out.resp.data_payload[1]>>)
            ELSE ResRaise("ValueError")
      [] op \in ByteGetOps ->
            IF out.kind = "raise" THEN ResRaise(out.err)
            ELSE IF NoPayload(out) THEN ResRaise("RuntimeError")
            ELSE ResReturn("int", <<out.resp.data_payload[1]>>)
      [] op \in FlagGetOps ->
            IF out.kind = "raise" THEN ResRaise(out.err)
            ELSE IF NoPayload(out) THEN ResRaise("RuntimeError")
            ELSE ResReturn("bool",
                           <<IF out.resp.data_payload[1] = FlagValue(op) THEN 1 ELSE 0>>)
      [] op \in TextGetOps ->
            IF out.kind = "raise" THEN ResRaise(out.err)
            ELSE IF NoPayload(out) THEN ResRaise("RuntimeError")
            ELSE ResReturn("str", SelectSeq(out.resp.data_payload, Printable))
      [] op = "get_precise_color_temperature" ->
            IF out.kind = "raise" THEN ResRaise(out.err)
            ELSE IF NoPayload(out) THEN ResRaise("RuntimeError")
            ELSE ResReturn("int", <<PreciseColorTemperature(out.resp.data_payload[1])>>)
      [] op = "get_temperature" ->
            IF out.kind = "raise" THEN ResRaise(out.err)
            ELSE IF NoPayload(out) THEN ResRaise("RuntimeError")
            ELSE LET temps == SelectSeq(out.resp.data_payload, SensorPopulated)
                 IN  IF temps # <<>> THEN ResReturn("list", temps)
                     ELSE ResReturn("None", <<>>)
      [] op = "get_ip_parameter" ->
            IF out.kind = "raise" THEN ResRaise(out.err)
            ELSE IF NoPayload(out) THEN ResRaise("RuntimeError")
            ELSE IF Len(out.resp.data_payload) < 2 THEN ResRaise("RuntimeError")
            ELSE LET pl == out.resp.data_payload
                 IN  ResReturn("str", format_ip_parameter_value(pl[1], SubSeq(pl, 3, Len(pl))))
      [] op = "get_volume" ->
            IF out.kind = "raise" THEN ResRaise(out.err)
            ELSE IF NoPayload(out) THEN ResRaise("RuntimeError")
            ELSE LET pl == out.resp.data_payload
                 IN  ResReturn("tuple", <<pl[1], IF Len(pl) > 1 THEN pl[2] ELSE NoneInt>>)
      [] op = "set_monitor_id" ->
            IF out.kind = "raise" THEN ResRaise(out.err)
            ELSE ResReturn(IF MonitorIdAcked(out) THEN "True" ELSE "False", <<>>)
      [] OTHER ->
            IF out.kind = "raise" THEN ResRaise(out.err) ELSE AckResult(out)

\* The call reported success: a truthy return value.
Succeeded(res) == res.kind = "return" /\ res.tag = "True"

\* set_precise_color_temperature tests "not self.set_color_temperature_mode(...)"
\* without awaiting the call: the value tested is the coroutine object, which is
\* truthy, and the coroutine's body (the USER2 request) never runs.
UnawaitedPrerequisiteTruthy == TRUE

----------------------------------------------------------------------------
(* Initial values of the three parts. *)

\* The display's reaction to the request sent last.
LastAnswer == IF answers = <<>> THEN NoAnswer ELSE answers[Len(answers)]

NoCall == [op |-> "none", a |-> NoneInt, b |-> NoneInt]
NoFault == [stage |-> "none", kind |-> "none"]

EngineInit ==
    /\ monitor_id \in {1, 2}
    /\ pc = "idle"
    /\ call = NoCall
    /\ message = <<>>
    /\ expect_data = FALSE
    /\ writer = "none"
    /\ pending = "none"
    /\ response_data = <<>>
    /\ wire = <<>>
    /\ answers = <<>>
    /\ opened = 0
    /\ closed = 0
    /\ fault = NoFault
    /\ close_failed = FALSE
    /\ result = NoResult
    /\ id_before = monitor_id

----------------------------------------------------------------------------
(* Command engine and transport: the steps of one call. *)

\* A call whose range check sits after the send: a rejected argument has already
\* cost a connection and a request by the time ValueError is raised.
StartCallValidateAfterSend(op, a, b) ==
    /\ pc = "idle"
    /\ call' = [op |-> op, a |-> a, b |-> b]
    /\ id_before' = monitor_id
    /\ pending' = "none"
    /\ response_data' = <<>>
    /\ fault' = NoFault
    /\ close_failed' = FALSE
    /\ IF ValidationError(op, a, b)
        THEN /\ result' = ResRaise("ValueError")
             /\ message' = <<>>
             /\ expect_data' = FALSE
             /\ writer' = "closed"
             /\ opened' = 1
             /\ closed' = 1
             /\ wire' = <<<<6, monitor_id, GROUP_ID, 0, 0, 0>>>>
             /\ answers' = <<NoAnswer>>
             /\ pc' = "idle"
        ELSE /\ result' = NoResult
             /\ message' = RequestOf(op, a, b, monitor_id)
             /\ expect_data' = ExpectData(op)
             /\ writer' = "none"
             /\ opened' = 0
             /\ closed' = 0
             /\ wire' = <<>>
             /\ answers' = <<>>
             /\ pc' = "connecting"
    /\ UNCHANGED monitor_id
    /\ UNCHANGED notEngine

\* A call enters its method: the per-call bookkeeping starts afresh, the
\* argument is validated, the request is built and handed to send_message.
StartCall(op, a, b) ==
    /\ pc = "idle"
    /\ call' = [op |-> op, a |-> a, b |-> b]
    /\ id_before' = monitor_id
    /\ writer' = "none"
    /\ pending' = "none"
    /\ response_data' = <<>>
    /\ wire' = <<>>
    /\ answers' = <<>>
    /\ opened' = 0
    /\ closed' = 0
    /\ fault' = NoFault
    /\ close_failed' = FALSE
    /\ IF ValidationError(op, a, b)
        THEN /\ result' = ResRaise("ValueError")
             /\ message' = <<>>
             /\ expect_data' = FALSE
             /\ pc' = "idle"
       ELSE IF op = "set_precise_color_temperature" /\ ~UnawaitedPrerequisiteTruthy
        THEN /\ result' = ResReturn("False", <<>>)
             /\ message' = <<>>
             /\ expect_data' = FALSE
             /\ pc' = "idle"
       ELSE /\ result' = NoResult
            /\ message' = RequestOf(op, a, b, monitor_id)
            /\ expect_data' = ExpectData(op)
            /\ pc' = "connecting"
    /\ UNCHANGED monitor_id
    /\ UNCHANGED notEngine

\* Leaving the try block with an exception: remember it, run the finally block.
FailTo(stage, kind) ==
    /\ fault' = [stage |-> stage, kind |-> kind]
    /\ pending' = MapTransportError(kind)
    /\ pc' = FinallyTarget(writer, MapTransportError(kind))

\* asyncio.open_connection within the connect timeout.
Connect ==
    /\ pc = "connecting"
    /\ writer' = "open"
    /\ opened' = opened + 1
    /\ pc' = "writing"
    /\ UNCHANGED <<monitor_id, call, message, expect_data, pending, response_data,
                   wire, answers, closed, fault, close_failed, result, id_before>>
    /\ UNCHANGED notEngine

\* The connect attempt times out, is refused or raises otherwise: no writer
\* exists.
ConnectFail(kind) ==
    /\ pc = "connecting"
    /\ FailTo("connect", kind)
    /\ UNCHANGED <<monitor_id, call, message, expect_data, writer, response_data,
                   wire, answers, opened, closed, close_failed, result, id_before>>
    /\ UNCHANGED notEngine

\* send_message reading a reply whatever expect_data says.
AfterWriteAlwaysRead(expect, w) == "reading"

\* After the drain: "if expect_data:" guards the only read of send_message;
\* without it the try block ends and the finally block runs.
AfterWrite(expect, w) == IF expect THEN "reading" ELSE FinallyTarget(w, "none")

\* writer.write + drain: the request is on the wire and the display reacts.
Write ==
    /\ pc = "writing"
    /\ wire' = Append(wire, message)
    /\ \E ans \in Answers(message) : answers' = Append(answers, ans)
    /\ pc' = AfterWrite(expect_data, writer)
    /\ UNCHANGED <<monitor_id, call, message, expect_data, writer, pending,
                   response_data, opened, closed, fault, close_failed, result,
                   id_before>>
    /\ UNCHANGED notEngine

\* The write fails: drain raises (reset, broken pipe, a timeout of the
\* socket, another exception); wait_for adds no timeout of its own.
WriteFail(kind) ==
    /\ pc = "writing"
    /\ FailTo("write", kind)
    /\ UNCHANGED <<monitor_id, call, message, expect_data, writer, response_data,
                   wire, answers, opened, closed, close_failed, result, id_before>>
    /\ UNCHANGED notEngine

\* reader.read(1024) returns what the display sent (empty when the peer closed).
Read ==
    /\ pc = "reading"
    /\ LastAnswer.sent
    /\ response_data' = LastAnswer.data
    /\ pc' = FinallyTarget(writer, "none")
    /\ UNCHANGED <<monitor_id, call, message, expect_data, writer, pending, wire,
                   answers, opened, closed, fault, close_failed, result, id_before>>
    /\ UNCHANGED notEngine

\* reader.read awaited without a timeout.
ReadTimeoutNever(ans) == FALSE

\* asyncio.wait_for(reader.read(1024), timeout=self.timeout): the timeout
\* fires when the display sends nothing.
ReadTimeoutFires(ans) == ~ans.sent

\* The read times out on a silent display, the connection is reset, or the
\* read raises otherwise.
ReadFail(kind) ==
    /\ pc = "reading"
    /\ kind = "timeout" => ReadTimeoutFires(LastAnswer)
    /\ FailTo("read", kind)
    /\ UNCHANGED <<monitor_id, call, message, expect_data, writer, response_data,
                   wire, answers, opened, closed, close_failed, result, id_before>>
    /\ UNCHANGED notEngine

\* finally: writer.close(), then wait_closed() whose exception is swallowed.
Close(wait_closed_raises) ==
    /\ pc = "closing"
    /\ writer' = "closed"
    /\ closed' = closed + 1
    /\ close_failed' = wait_closed_raises
    /\ pc' = "finishing"
    /\ UNCHANGED <<monitor_id, call, message, expect_data, pending, response_data,
                   wire, answers, opened, fault, result, id_before>>
    /\ UNCHANGED notEngine

\* send_message returns or raises, and the operation turns that into its own
\* result; set_monitor_id stores the new id when acknowledged.
Finish ==
    /\ pc = "finishing"
    /\ LET out == SendOutcome(pending, expect_data, response_data, message)
       IN  /\ result' = OpResult(call.op, call.a, out)
           /\ monitor_id' = IF call.op = "set_monitor_id"
                               THEN StoredMonitorId(monitor_id, call.a, out)
                               ELSE monitor_id
    /\ pc' = "idle"
    /\ UNCHANGED <<call, message, expect_data, writer, pending, response_data,
                   wire, answers, opened, closed, fault, close_failed, id_before>>
    /\ UNCHANGED notEngine

ClassInitIdle ==
    /\ raw_data = <<>>
    /\ parsed = FALSE
    /\ response = BlankResponse

Tasks == {0} \cup (1..NUsers)
\* Task 0 is the coordinator's poll (_async_update_data); the others are
\* entities forwarding a user action (PhilipsSicpEntity._async_call_client).
PollTask == 0

CoordInitIdle ==
    /\ lock_held = FALSE
    /\ tpc = [t \in Tasks |-> "idle"]
    /\ tleft = [t \in Tasks |-> 0]
    /\ tconn = [t \in Tasks |-> FALSE]

EngineInitIdle == EngineInit /\ monitor_id = 1

BuildInitIdle ==
    /\ built_by = [builder |-> "none", monitor_id |-> 0, p |-> 0, q |-> 0]
    /\ built = <<>>

----------------------------------------------------------------------------
(* One poll cycle: SicpDisplayClient.fetch_status. *)

\* The try blocks of fetch_status in their order; get_volume fills the two
\* volume fields, each info map is one field.
FieldReads == <<"power_state", "brightness", "precise_color_temperature",
                "backlight_on", "temperatures", "serial_number", "model_info",
                "sicp_info", "smart_power_level", "power_on_logo_mode",
                "cold_start_state", "input_source", "volume", "mute">>

PlainReads == {FieldReads[i] : i \in 1..Len(FieldReads)} \ {"model_info", "sicp_info"}

\* The keys _collect_model_info and _collect_sicp_info read, in their order.
KeysOf(read) ==
    IF read = "model_info"
        THEN <<"model_number", "firmware_version", "build_date", "android_firmware">>
        ELSE <<"platform_label", "platform_version", "custom_intent_version">>

EmptyInfo(read) == [i \in 1..Len(KeysOf(read)) |-> "absent"]

\* The exceptions a get of the engine may raise.
ErrorKinds == {"NetworkError", "NotSupportedOrNotAvailableError",
               "ChecksumOrFormatError", "ProtocolError", "RuntimeError", "ValueError",
               "Exception"}

\* The reads made with a get that decodes an enumeration member.
EnumReads == {"power_state", "smart_power_level", "power_on_logo_mode",
              "cold_start_state", "input_source"}

\* What the get behind a read may raise: ValueError comes from the enumeration
\* gets only, and get_power_state turns NetworkError into a value.
Raisable(read) ==
    IF read = "power_state" THEN ErrorKinds \ {"NetworkError"}
    ELSE IF read \in EnumReads THEN ErrorKinds
    ELSE ErrorKinds \ {"ValueError"}

\* fetch_status catching NotSupportedOrNotAvailableError only.
CaughtByFetchStatusNarrow(read, kind) == kind = "NotSupportedOrNotAvailableError"

\* Every try block of fetch_status ends with "except Exception".
CaughtByFetchStatus(read, kind) == kind \in ErrorKinds

\* "except (IndexError, NetworkError, RuntimeError)" inside the two collectors.
CaughtByCollector(kind) == kind \in {"IndexError", "NetworkError", "RuntimeError"}

PollInitIdle ==
    /\ pstep = 0
    /\ pkey = 0
    /\ fields = [r \in PlainReads |-> "default"]
    /\ info = <<>>
    /\ model_info = EmptyInfo("model_info")
    /\ sicp_info = EmptyInfo("sicp_info")
    /\ pattempted = {}
    /\ pfailed = {}
    /\ pfailures = 0
    /\ poll_result = "pending"

\* fetch_status is called.
PollStart ==
    /\ pstep = 0
    /\ pstep' = 1
    /\ UNCHANGED <<pkey, fields, info, model_info, sicp_info, pattempted, pfailed,
                   pfailures, poll_result, notPoll>>

\* The exception kind leaves the try block of the current read: it is caught
\* and the next read follows, or it leaves fetch_status.
LeaveTry(read, kind) ==
    IF CaughtByFetchStatus(read, kind)
        THEN /\ pfailed' = pfailed \cup {read}
             /\ pstep' = pstep + 1
             /\ poll_result' = poll_result
        ELSE /\ pfailed' = pfailed
             /\ pstep' = pstep
             /\ poll_result' = "raised"

\* A plain field is read and its get returns a value.
ReadFieldValue ==
    /\ poll_result = "pending"
    /\ pstep \in 1..Len(FieldReads)
    /\ FieldReads[pstep] \in PlainReads
    /\ fields' = [fields EXCEPT ![FieldReads[pstep]] = "value"]
    /\ pattempted' = pattempted \cup {FieldReads[pstep]}
    /\ pstep' = pstep + 1
    /\ UNCHANGED <<pkey, info, model_info, sicp_info, pfailed, pfailures,
                   poll_result, notPoll>>

\* A plain field is read and its get raises.
ReadFieldRaise(kind) ==
    /\ poll_result = "pending"
    /\ pstep \in 1..Len(FieldReads)
    /\ FieldReads[pstep] \in PlainReads
    /\ kind \in Raisable(FieldReads[pstep])
    /\ pfailures < MaxPollFailures
    /\ pfailures' = pfailures + 1
    /\ pattempted' = pattempted \cup {FieldReads[pstep]}
    /\ LeaveTry(FieldReads[pstep], kind)
    /\ UNCHANGED <<pkey, fields, info, model_info, sicp_info, notPoll>>

\* A collector is entered: info = {}.
CollectStart ==
    /\ poll_result = "pending"
    /\ pstep \in 1..Len(FieldReads)
    /\ FieldReads[pstep] \notin PlainReads
    /\ pkey = 0
    /\ pkey' = 1
    /\ info' = EmptyInfo(FieldReads[pstep])
    /\ pattempted' = pattempted \cup {FieldReads[pstep]}
    /\ UNCHANGED <<pstep, fields, model_info, sicp_info, pfailed, pfailures,
                   poll_result, notPoll>>

\* The collector reads the next key and stores its text.
CollectKeyValue ==
    /\ poll_result = "pending"
    /\ pkey \in 1..Len(info)
    /\ info' = [info EXCEPT ![pkey] = "text"]
    /\ pkey' = pkey + 1
    /\ UNCHANGED <<pstep, fields, model_info, sicp_info, pattempted, pfailed,
                   pfailures, poll_result, notPoll>>

\* The get of the next key raises: _collect_sicp_info stores "N/A" for a
\* not-supported error; a kind the collector catches skips the key; any other
\* kind leaves the collector, whose dict is lost.
CollectKeyRaise(kind) ==
    /\ poll_result = "pending"
    /\ pkey \in 1..Len(info)
    /\ kind \in ErrorKinds \ {"ValueError"}
    /\ pfailures < MaxPollFailures
    /\ pfailures' = pfailures + 1
    /\ IF FieldReads[pstep] = "sicp_info" /\ kind = "NotSupportedOrNotAvailableError"
        THEN /\ info' = [info EXCEPT ![pkey] = "N/A"]
             /\ pkey' = pkey + 1
             /\ UNCHANGED <<pstep, pfailed, poll_result>>
       ELSE IF CaughtByCollector(kind)
        THEN /\ pkey' = pkey + 1
             /\ UNCHANGED <<info, pstep, pfailed, poll_result>>
       ELSE /\ pkey' = 0
            /\ info' = <<>>
            /\ LeaveTry(FieldReads[pstep], kind)
    /\ UNCHANGED <<fields, model_info, sicp_info, pattempted, notPoll>>

\* The collector returns its dict, which becomes the snapshot's map.
CollectReturn ==
    /\ poll_result = "pending"
    /\ pkey = Len(info) + 1
    /\ pkey > 1
    /\ IF FieldReads[pstep] = "model_info"
        THEN model_info' = info /\ UNCHANGED sicp_info
        ELSE sicp_info' = info /\ UNCHANGED model_info
    /\ info' = <<>>
    /\ pkey' = 0
    /\ pstep' = pstep + 1
    /\ UNCHANGED <<fields, pattempted, pfailed, pfailures, poll_result, notPoll>>

\* return SicpDisplayData(...)
PollReturn ==
    /\ poll_result = "pending"
    /\ pstep = Len(FieldReads) + 1
    /\ poll_result' = "returned"
    /\ UNCHANGED <<pstep, pkey, fields, info, model_info, sicp_info, pattempted,
                   pfailed, pfailures, notPoll>>

----------------------------------------------------------------------------
(* Label resolution of the command line: text is a sequence of character
   codes ("vol+" is <<118, 111, 108, 43>>). *)

\* str.lower() and the C parser's lower-casing on an ASCII character.
AsciiLower(c) == IF 65 <= c /\ c <= 90 THEN c + 32 ELSE c

\* The simple lower-case mapping of the characters above ASCII that have one,
\* as runs <<first, last, step, offset>>: every step-th character from first
\* to last maps to itself plus offset.
LowerRuns ==
    {<<192, 214, 1, 32>>, <<216, 222, 1, 32>>, <<256, 302, 2, 1>>, <<306, 310, 2, 1>>, <<313, 327, 2, 1>>,
     <<330, 374, 2, 1>>, <<376, 376, 1, -121>>, <<377, 381, 2, 1>>, <<385, 385, 1, 210>>, <<386, 388, 2, 1>>,
     <<390, 390, 1, 206>>, <<391, 391, 1, 1>>, <<393, 394, 1, 205>>, <<395, 395, 1, 1>>, <<398, 398, 1, 79>>,
     <<399, 399, 1, 202>>, <<400, 400, 1, 203>>, <<401, 401, 1, 1>>, <<403, 403, 1, 205>>, <<404, 404, 1, 207>>,
     <<406, 406, 1, 211>>, <<407, 407, 1, 209>>, <<408, 408, 1, 1>>, <<412, 412, 1, 211>>, <<413, 413, 1, 213>>,
     <<415, 415, 1, 214>>, <<416, 420, 2, 1>>, <<422, 422, 1, 218>>, <<423, 423, 1, 1>>, <<425, 425, 1, 218>>,
     <<428, 428, 1, 1>>, <<430, 430, 1, 218>>, <<431, 431, 1, 1>>, <<433, 434, 1, 217>>, <<435, 437, 2, 1>>,
     <<439, 439, 1, 219>>, <<440, 440, 1, 1>>, <<444, 444, 1, 1>>, <<452, 452, 1, 2>>, <<453, 453, 1, 1>>,
     <<455, 455, 1, 2>>, <<456, 456, 1, 1>>, <<458, 458, 1, 2>>, <<459, 475, 2, 1>>, <<478, 494, 2, 1>>,
     <<497, 497, 1, 2>>, <<498, 500, 2, 1>>, <<502, 502, 1, -97>>, <<503, 503, 1, -56>>, <<504, 542, 2, 1>>,
     <<544, 544, 1, -130>>, <<546, 562, 2, 1>>, <<570, 570, 1, 10795>>, <<571, 571, 1, 1>>, <<573, 573, 1, -163>>,
     <<574, 574, 1, 10792>>, <<577, 577, 1, 1>>, <<579, 579, 1, -195>>, <<580, 580, 1, 69>>, <<581, 581, 1, 71>>,
     <<582, 590, 2, 1>>, <<880, 882, 2, 1>>, <<886, 886, 1, 1>>, <<895, 895, 1, 116>>, <<902, 902, 1, 38>>,
     <<904, 906, 1, 37>>, <<908, 908, 1, 64>>, <<910, 911, 1, 63>>, <<913, 929, 1, 32>>, <<931, 939, 1, 32>>,
     <<975, 975, 1, 8>>, <<984, 1006, 2, 1>>, <<1012, 1012, 1, -60>>, <<1015, 1015, 1, 1>>, <<1017, 1017, 1, -7>>,
     <<1018, 1018, 1, 1>>, <<1021, 1023, 1, -130>>, <<1024, 1039, 1, 80>>, <<1040, 1071, 1, 32>>, <<1120, 1152, 2, 1>>,
     <<1162, 1214, 2, 1>>, <<1216, 1216, 1, 15>>, <<1217, 1229, 2, 1>>, <<1232, 1326, 2, 1>>, <<1329, 1366, 1, 48>>,
     <<4256, 4293, 1, 7264>>, <<4295, 4295, 1, 7264>>, <<4301, 4301, 1, 7264>>, <<5024, 5103, 1, 38864>>, <<5104, 5109, 1, 8>>,
     <<7312, 7354, 1, -3008>>, <<7357, 7359, 1, -3008>>, <<7680, 7828, 2, 1>>, <<7838, 7838, 1, -7615>>, <<7840, 7934, 2, 1>>,
     <<7944, 7951, 1, -8>>, <<7960, 7965, 1, -8>>, <<7976, 7983, 1, -8>>, <<7992, 7999, 1, -8>>, <<8008, 8013, 1, -8>>,
     <<8025, 8031, 2, -8>>, <<8040, 8047, 1, -8>>, <<8072, 8079, 1, -8>>, <<8088, 8095, 1, -8>>, <<8104, 8111, 1, -8>>,
     <<8120, 8121, 1, -8>>, <<8122, 8123, 1, -74>>, <<8124, 8124, 1, -9>>, <<8136, 8139, 1, -86>>, <<8140, 8140, 1, -9>>,
     <<8152, 8153, 1, -8>>, <<8154, 8155, 1, -100>>, <<8168, 8169, 1, -8>>, <<8170, 8171, 1, -112>>, <<8172, 8172, 1, -7>>,
     <<8184, 8185, 1, -128>>, <<8186, 8187, 1, -126>>, <<8188, 8188, 1, -9>>, <<8486, 8486, 1, -7517>>, <<8490, 8490, 1, -8383>>,
     <<8491, 8491, 1, -8262>>, <<8498, 8498, 1, 28>>, <<8544, 8559, 1, 16>>, <<8579, 8579, 1, 1>>, <<9398, 9423, 1, 26>>,
     <<11264, 11311, 1, 48>>, <<11360, 11360, 1, 1>>, <<11362, 11362, 1, -10743>>, <<11363, 11363, 1, -3814>>, <<11364, 11364, 1, -10727>>,
     <<11367, 11371, 2, 1>>, <<11373, 11373, 1, -10780>>, <<11374, 11374, 1, -10749>>, <<11375, 11375, 1, -10783>>, <<11376, 11376, 1, -10782>>,
     <<11378, 11378, 1, 1>>, <<11381, 11381, 1, 1>>, <<11390, 11391, 1, -10815>>, <<11392, 11490, 2, 1>>, <<11499, 11501, 2, 1>>,
     <<11506, 11506, 1, 1>>, <<42560, 42604, 2, 1>>, <<42624, 42650, 2, 1>>, <<42786, 42798, 2, 1>>, <<42802, 42862, 2, 1>>,
     <<42873, 42875, 2, 1>>, <<42877, 42877, 1, -35332>>, <<42878, 42886, 2, 1>>, <<42891, 42891, 1, 1>>, <<42893, 42893, 1, -42280>>,
     <<42896, 42898, 2, 1>>, <<42902, 42920, 2, 1>>, <<42922, 42922, 1, -42308>>, <<42923, 42923, 1, -42319>>, <<42924, 42924, 1, -42315>>,
     <<42925, 42925, 1, -42305>>, <<42926, 42926, 1, -42308>>, <<42928, 42928, 1, -42258>>, <<42929, 42929, 1, -42282>>, <<42930, 42930, 1, -42261>>,
     <<42931, 42931, 1, 928>>, <<42932, 42946, 2, 1>>, <<42948, 42948, 1, -48>>, <<42949, 42949, 1, -42307>>, <<42950, 42950, 1, -35384>>,
     <<42951, 42953, 2, 1>>, <<42960, 42960, 1, 1>>, <<42966, 42968, 2, 1>>, <<42997, 42997, 1, 1>>, <<65313, 65338, 1, 32>>,
     <<66560, 66599, 1, 40>>, <<66736, 66771, 1, 40>>, <<66928, 66938, 1, 39>>, <<66940, 66954, 1, 39>>, <<66956, 66962, 1, 39>>,
     <<66964, 66965, 1, 39>>, <<68736, 68786, 1, 64>>, <<71840, 71871, 1, 32>>, <<93760, 93791, 1, 32>>, <<125184, 125217, 1, 34>>}

\* One character lower-cased by its simple mapping.
LowerChar(c) ==
    IF c < 128 THEN AsciiLower(c)
    ELSE LET hit == {r \in LowerRuns : r[1] <= c /\ c <= r[2] /\ (c - r[1]) % r[3] = 0}
         IN  IF hit = {} THEN c ELSE c + (CHOOSE r \in hit : TRUE)[4]

\* Cased characters above ASCII that are not case-ignorable, as ranges
\* <<first, last>>.
CasedRanges ==
    {<<170, 170>>, <<181, 181>>, <<186, 186>>, <<192, 214>>, <<216, 246>>, <<248, 442>>, <<444, 447>>,
     <<452, 659>>, <<661, 687>>, <<880, 883>>, <<886, 887>>, <<891, 893>>, <<895, 895>>, <<902, 902>>,
     <<904, 906>>, <<908, 908>>, <<910, 929>>, <<931, 1013>>, <<1015, 1153>>, <<1162, 1327>>, <<1329, 1366>>,
     <<1376, 1416>>, <<4256, 4293>>, <<4295, 4295>>, <<4301, 4301>>, <<4304, 4346>>, <<4349, 4351>>, <<5024, 5109>>,
     <<5112, 5117>>, <<7296, 7304>>, <<7312, 7354>>, <<7357, 7359>>, <<7424, 7467>>, <<7531, 7543>>, <<7545, 7578>>,
     <<7680, 7957>>, <<7960, 7965>>, <<7968, 8005>>, <<8008, 8013>>, <<8016, 8023>>, <<8025, 8025>>, <<8027, 8027>>,
     <<8029, 8029>>, <<8031, 8061>>, <<8064, 8116>>, <<8118, 8124>>, <<8126, 8126>>, <<8130, 8132>>, <<8134, 8140>>,
     <<8144, 8147>>, <<8150, 8155>>, <<8160, 8172>>, <<8178, 8180>>, <<8182, 8188>>, <<8450, 8450>>, <<8455, 8455>>,
     <<8458, 8467>>, <<8469, 8469>>, <<8473, 8477>>, <<8484, 8484>>, <<8486, 8486>>, <<8488, 8488>>, <<8490, 8493>>,
     <<8495, 8500>>, <<8505, 8505>>, <<8508, 8511>>, <<8517, 8521>>, <<8526, 8526>>, <<8544, 8575>>, <<8579, 8580>>,
     <<9398, 9449>>, <<11264, 11387>>, <<11390, 11492>>, <<11499, 11502>>, <<11506, 11507>>, <<11520, 11557>>, <<11559, 11559>>,
     <<11565, 11565>>, <<42560, 42605>>, <<42624, 42651>>, <<42786, 42863>>, <<42865, 42887>>, <<42891, 42894>>, <<42896, 42954>>,
     <<42960, 42961>>, <<42963, 42963>>, <<42965, 42969>>, <<42997, 42998>>, <<43002, 43002>>, <<43824, 43866>>, <<43872, 43880>>,
     <<43888, 43967>>, <<64256, 64262>>, <<64275, 64279>>, <<65313, 65338>>, <<65345, 65370>>, <<66560, 66639>>, <<66736, 66771>>,
     <<66776, 66811>>, <<66928, 66938>>, <<66940, 66954>>, <<66956, 66962>>, <<66964, 66965>>, <<66967, 66977>>, <<66979, 66993>>,
     <<66995, 67001>>, <<67003, 67004>>, <<68736, 68786>>, <<68800, 68850>>, <<71840, 71903>>, <<93760, 93823>>, <<119808, 119892>>,
     <<119894, 119964>>, <<119966, 119967>>, <<119970, 119970>>, <<119973, 119974>>, <<119977, 119980>>, <<119982, 119993>>, <<119995, 119995>>,
     <<119997, 120003>>, <<120005, 120069>>, <<120071, 120074>>, <<120077, 120084>>, <<120086, 120092>>, <<120094, 120121>>, <<120123, 120126>>,
     <<120128, 120132>>, <<120134, 120134>>, <<120138, 120144>>, <<120146, 120485>>, <<120488, 120512>>, <<120514, 120538>>, <<120540, 120570>>,
     <<120572, 120596>>, <<120598, 120628>>, <<120630, 120654>>, <<120656, 120686>>, <<120688, 120712>>, <<120714, 120744>>, <<120746, 120770>>,
     <<120772, 120779>>, <<122624, 122633>>, <<122635, 122654>>, <<125184, 125251>>, <<127280, 127305>>, <<127312, 127337>>, <<127344, 127369>>}

\* Case-ignorable characters above ASCII, as ranges <<first, last>>.
CaseIgnorableRanges ==
    {<<168, 168>>, <<173, 173>>, <<175, 175>>, <<180, 180>>, <<183, 184>>, <<688, 879>>, <<884, 885>>,
     <<890, 890>>, <<900, 901>>, <<903, 903>>, <<1155, 1161>>, <<1369, 1369>>, <<1375, 1375>>, <<1425, 1469>>,
     <<1471, 1471>>, <<1473, 1474>>, <<1476, 1477>>, <<1479, 1479>>, <<1524, 1524>>, <<1536, 1541>>, <<1552, 1562>>,
     <<1564, 1564>>, <<1600, 1600>>, <<1611, 1631>>, <<1648, 1648>>, <<1750, 1757>>, <<1759, 1768>>, <<1770, 1773>>,
     <<1807, 1807>>, <<1809, 1809>>, <<1840, 1866>>, <<1958, 1968>>, <<2027, 2037>>, <<2042, 2042>>, <<2045, 2045>>,
     <<2070, 2093>>, <<2137, 2139>>, <<2184, 2184>>, <<2192, 2193>>, <<2200, 2207>>, <<2249, 2306>>, <<2362, 2362>>,
     <<2364, 2364>>, <<2369, 2376>>, <<2381, 2381>>, <<2385, 2391>>, <<2402, 2403>>, <<2417, 2417>>, <<2433, 2433>>,
     <<2492, 2492>>, <<2497, 2500>>, <<2509, 2509>>, <<2530, 2531>>, <<2558, 2558>>, <<2561, 2562>>, <<2620, 2620>>,
     <<2625, 2626>>, <<2631, 2632>>, <<2635, 2637>>, <<2641, 2641>>, <<2672, 2673>>, <<2677, 2677>>, <<2689, 2690>>,
     <<2748, 2748>>, <<2753, 2757>>, <<2759, 2760>>, <<2765, 2765>>, <<2786, 2787>>, <<2810, 2815>>, <<2817, 2817>>,
     <<2876, 2876>>, <<2879, 2879>>, <<2881, 2884>>, <<2893, 2893>>, <<2901, 2902>>, <<2914, 2915>>, <<2946, 2946>>,
     <<3008, 3008>>, <<3021, 3021>>, <<3072, 3072>>, <<3076, 3076>>, <<3132, 3132>>, <<3134, 3136>>, <<3142, 3144>>,
     <<3146, 3149>>, <<3157, 3158>>, <<3170, 3171>>, <<3201, 3201>>, <<3260, 3260>>, <<3263, 3263>>, <<3270, 3270>>,
     <<3276, 3277>>, <<3298, 3299>>, <<3328, 3329>>, <<3387, 3388>>, <<3393, 3396>>, <<3405, 3405>>, <<3426, 3427>>,
     <<3457, 3457>>, <<3530, 3530>>, <<3538, 3540>>, <<3542, 3542>>, <<3633, 3633>>, <<3636, 3642>>, <<3654, 3662>>,
     <<3761, 3761>>, <<3764, 3772>>, <<3782, 3782>>, <<3784, 3789>>, <<3864, 3865>>, <<3893, 3893>>, <<3895, 3895>>,
     <<3897, 3897>>, <<3953, 3966>>, <<3968, 3972>>, <<3974, 3975>>, <<3981, 3991>>, <<3993, 4028>>, <<4038, 4038>>,
     <<4141, 4144>>, <<4146, 4151>>, <<4153, 4154>>, <<4157, 4158>>, <<4184, 4185>>, <<4190, 4192>>, <<4209, 4212>>,
     <<4226, 4226>>, <<4229, 4230>>, <<4237, 4237>>, <<4253, 4253>>, <<4348, 4348>>, <<4957, 4959>>, <<5906, 5908>>,
     <<5938, 5939>>, <<5970, 5971>>, <<6002, 6003>>, <<6068, 6069>>, <<6071, 6077>>, <<6086, 6086>>, <<6089, 6099>>,
     <<6103, 6103>>, <<6109, 6109>>, <<6155, 6159>>, <<6211, 6211>>, <<6277, 6278>>, <<6313, 6313>>, <<6432, 6434>>,
     <<6439, 6440>>, <<6450, 6450>>, <<6457, 6459>>, <<6679, 6680>>, <<6683, 6683>>, <<6742, 6742>>, <<6744, 6750>>,
     <<6752, 6752>>, <<6754, 6754>>, <<6757, 6764>>, <<6771, 6780>>, <<6783, 6783>>, <<6823, 6823>>, <<6832, 6862>>,
     <<6912, 6915>>, <<6964, 6964>>, <<6966, 6970>>, <<6972, 6972>>, <<6978, 6978>>, <<7019, 7027>>, <<7040, 7041>>,
     <<7074, 7077>>, <<7080, 7081>>, <<7083, 7085>>, <<7142, 7142>>, <<7144, 7145>>, <<7149, 7149>>, <<7151, 7153>>,
     <<7212, 7219>>, <<7222, 7223>>, <<7288, 7293>>, <<7376, 7378>>, <<7380, 7392>>, <<7394, 7400>>, <<7405, 7405>>,
     <<7412, 7412>>, <<7416, 7417>>, <<7468, 7530>>, <<7544, 7544>>, <<7579, 7679>>, <<8125, 8125>>, <<8127, 8129>>,
     <<8141, 8143>>, <<8157, 8159>>, <<8173, 8175>>, <<8189, 8190>>, <<8203, 8207>>, <<8216, 8217>>, <<8228, 8228>>,
     <<8231, 8231>>, <<8234, 8238>>, <<8288, 8292>>, <<8294, 8303>>, <<8305, 8305>>, <<8319, 8319>>, <<8336, 8348>>,
     <<8400, 8432>>, <<11388, 11389>>, <<11503, 11505>>, <<11631, 11631>>, <<11647, 11647>>, <<11744, 11775>>, <<11823, 11823>>,
     <<12293, 12293>>, <<12330, 12333>>, <<12337, 12341>>, <<12347, 12347>>, <<12441, 12446>>, <<12540, 12542>>, <<40981, 40981>>,
     <<42232, 42237>>, <<42508, 42508>>, <<42607, 42610>>, <<42612, 42621>>, <<42623, 42623>>, <<42652, 42655>>, <<42736, 42737>>,
     <<42752, 42785>>, <<42864, 42864>>, <<42888, 42890>>, <<42994, 42996>>, <<43000, 43001>>, <<43010, 43010>>, <<43014, 43014>>,
     <<43019, 43019>>, <<43045, 43046>>, <<43052, 43052>>, <<43204, 43205>>, <<43232, 43249>>, <<43263, 43263>>, <<43302, 43309>>,
     <<43335, 43345>>, <<43392, 43394>>, <<43443, 43443>>, <<43446, 43449>>, <<43452, 43453>>, <<43471, 43471>>, <<43493, 43494>>,
     <<43561, 43566>>, <<43569, 43570>>, <<43573, 43574>>, <<43587, 43587>>, <<43596, 43596>>, <<43632, 43632>>, <<43644, 43644>>,
     <<43696, 43696>>, <<43698, 43700>>, <<43703, 43704>>, <<43710, 43711>>, <<43713, 43713>>, <<43741, 43741>>, <<43756, 43757>>,
     <<43763, 43764>>, <<43766, 43766>>, <<43867, 43871>>, <<43881, 43883>>, <<44005, 44005>>, <<44008, 44008>>, <<44013, 44013>>,
     <<64286, 64286>>, <<64434, 64450>>, <<65024, 65039>>, <<65043, 65043>>, <<65056, 65071>>, <<65106, 65106>>, <<65109, 65109>>,
     <<65279, 65279>>, <<65287, 65287>>, <<65294, 65294>>, <<65306, 65306>>, <<65342, 65342>>, <<65344, 65344>>, <<65392, 65392>>,
     <<65438, 65439>>, <<65507, 65507>>, <<65529, 65531>>, <<66045, 66045>>, <<66272, 66272>>, <<66422, 66426>>, <<67456, 67461>>,
     <<67463, 67504>>, <<67506, 67514>>, <<68097, 68099>>, <<68101, 68102>>, <<68108, 68111>>, <<68152, 68154>>, <<68159, 68159>>,
     <<68325, 68326>>, <<68900, 68903>>, <<69291, 69292>>, <<69446, 69456>>, <<69506, 69509>>, <<69633, 69633>>, <<69688, 69702>>,
     <<69744, 69744>>, <<69747, 69748>>, <<69759, 69761>>, <<69811, 69814>>, <<69817, 69818>>, <<69821, 69821>>, <<69826, 69826>>,
     <<69837, 69837>>, <<69888, 69890>>, <<69927, 69931>>, <<69933, 69940>>, <<70003, 70003>>, <<70016, 70017>>, <<70070, 70078>>,
     <<70089, 70092>>, <<70095, 70095>>, <<70191, 70193>>, <<70196, 70196>>, <<70198, 70199>>, <<70206, 70206>>, <<70367, 70367>>,
     <<70371, 70378>>, <<70400, 70401>>, <<70459, 70460>>, <<70464, 70464>>, <<70502, 70508>>, <<70512, 70516>>, <<70712, 70719>>,
     <<70722, 70724>>, <<70726, 70726>>, <<70750, 70750>>, <<70835, 70840>>, <<70842, 70842>>, <<70847, 70848>>, <<70850, 70851>>,
     <<71090, 71093>>, <<71100, 71101>>, <<71103, 71104>>, <<71132, 71133>>, <<71219, 71226>>, <<71229, 71229>>, <<71231, 71232>>,
     <<71339, 71339>>, <<71341, 71341>>, <<71344, 71349>>, <<71351, 71351>>, <<71453, 71455>>, <<71458, 71461>>, <<71463, 71467>>,
     <<71727, 71735>>, <<71737, 71738>>, <<71995, 71996>>, <<71998, 71998>>, <<72003, 72003>>, <<72148, 72151>>, <<72154, 72155>>,
     <<72160, 72160>>, <<72193, 72202>>, <<72243, 72248>>, <<72251, 72254>>, <<72263, 72263>>, <<72273, 72278>>, <<72281, 72283>>,
     <<72330, 72342>>, <<72344, 72345>>, <<72752, 72758>>, <<72760, 72765>>, <<72767, 72767>>, <<72850, 72871>>, <<72874, 72880>>,
     <<72882, 72883>>, <<72885, 72886>>, <<73009, 73014>>, <<73018, 73018>>, <<73020, 73021>>, <<73023, 73029>>, <<73031, 73031>>,
     <<73104, 73105>>, <<73109, 73109>>, <<73111, 73111>>, <<73459, 73460>>, <<78896, 78904>>, <<92912, 92916>>, <<92976, 92982>>,
     <<92992, 92995>>, <<94031, 94031>>, <<94095, 94111>>, <<94176, 94177>>, <<94179, 94180>>, <<110576, 110579>>, <<110581, 110587>>,
     <<110589, 110590>>, <<113821, 113822>>, <<113824, 113827>>, <<118528, 118573>>, <<118576, 118598>>, <<119143, 119145>>, <<119155, 119170>>,
     <<119173, 119179>>, <<119210, 119213>>, <<119362, 119364>>, <<121344, 121398>>, <<121403, 121452>>, <<121461, 121461>>, <<121476, 121476>>,
     <<121499, 121503>>, <<121505, 121519>>, <<122880, 122886>>, <<122888, 122904>>, <<122907, 122913>>, <<122915, 122916>>, <<122918, 122922>>,
     <<123184, 123197>>, <<123566, 123566>>, <<123628, 123631>>, <<125136, 125142>>, <<125252, 125259>>, <<127995, 127999>>, <<917505, 917505>>,
     <<917536, 917631>>, <<917760, 917999>>}

\* Case-ignorable ASCII characters: ' . : ^ `
AsciiCaseIgnorable == {39, 46, 58, 94, 96}

CaseIgnorable(c) ==
    IF c < 128 THEN c \in AsciiCaseIgnorable
    ELSE \E r \in CaseIgnorableRanges : r[1] <= c /\ c <= r[2]

\* Cased and not skipped as case-ignorable.
Cased(c) ==
    IF c < 128 THEN AsciiLower(c) \in 97..122
    ELSE \E r \in CasedRanges : r[1] <= c /\ c <= r[2]

\* The capital sigma at position i ends a word: a cased character comes before
\* it, case-ignorable characters skipped, and none comes after it.
FinalSigma(s, i) ==
    LET before == {j \in 1..(i - 1) : ~CaseIgnorable(s[j])}
        after == {j \in (i + 1)..Len(s) : ~CaseIgnorable(s[j])}
        last == CHOOSE j \in before : \A k \in before : k <= j
        next == CHOOSE j \in after : \A k \in after : j <= k
    IN  /\ before # {}
        /\ Cased(s[last])
        /\ (after = {} \/ ~Cased(s[next]))

\* One character of a text lower-cased: the capital sigma (931) is the final
\* sigma (962) at the end of a word and the small sigma (963) elsewhere.
LowerAt(s, i) ==
    IF s[i] = 931 THEN (IF FinalSigma(s, i) THEN 962 ELSE 963) ELSE LowerChar(s[i])

\* str.lower(): each character by its mapping; the dotted capital I (304)
\* becomes two characters, 'i' and the combining dot above.
Lower(s) ==
    LET dotted == {i \in 1..Len(s) : s[i] = 304}
        extra == Cardinality(dotted)
        Start(i) == i + Cardinality({j \in dotted : j < i})
        Source(k) ==
            CHOOSE i \in (IF k > extra THEN k - extra ELSE 1)..(IF k < Len(s) THEN k ELSE Len(s)) :
                Start(i) = k \/ (i \in dotted /\ Start(i) + 1 = k)
    IN  [k \in 1..(Len(s) + extra) |->
            IF Source(k) \in dotted
                THEN (IF Start(Source(k)) = k THEN 105 ELSE 775)
                ELSE LowerAt(s, Source(k))]

\* str.isspace(): what str.strip() removes at both ends, as ranges
\* <<first, last>>.
StrSpaceRanges ==
    {<<9, 13>>, <<28, 32>>, <<133, 133>>, <<160, 160>>, <<5760, 5760>>, <<8192, 8202>>,
     <<8232, 8233>>, <<8239, 8239>>, <<8287, 8287>>, <<12288, 12288>>}

IsSpace(c) == \E r \in StrSpaceRanges : r[1] <= c /\ c <= r[2]

\* A text without the characters of a kind at its two ends.
Trimmed(s, Skipped(_)) ==
    IF \A i \in 1..Len(s) : Skipped(s[i]) THEN <<>>
    ELSE LET first == CHOOSE i \in 1..Len(s) :
                        ~Skipped(s[i]) /\ \A j \in 1..(i - 1) : Skipped(s[j])
             rest == SubSeq(s, first, Len(s))
             last == CHOOSE i \in 1..Len(rest) :
                        ~Skipped(rest[i]) /\ \A j \in (i + 1)..Len(rest) : Skipped(rest[j])
         IN  SubSeq(rest, 1, last)

Strip(s) == Trimmed(s, IsSpace)

\* .replace('_', '-').replace(' ', '-')
Kebab(s) == [i \in 1..Len(s) |-> IF s[i] \in {95, 32} THEN 45 ELSE s[i]]

\* The normalisation without lower().
normalize_choice_case_kept(value) == Strip(Kebab(value))

\* cli._normalize_choice
normalize_choice(value) == Strip(Kebab(Lower(value)))

\* protocol._normalize_enum_name for RemoteKey: name.lower().replace('_', '-')
normalize_enum_name(raw_name) ==
    LET lowered == Lower(raw_name)
    IN  [i \in 1..Len(lowered) |-> IF lowered[i] = 95 THEN 45 ELSE lowered[i]]

\* protocol._normalize_enum_token for RemoteKey
normalize_enum_token(token) == Strip(Kebab(Lower(token)))

\* cli.REMOTE_KEY_ALIASES: normalised label -> code.
REMOTE_KEY_ALIASES ==
    (<<118, 111, 108, 43>> :> 16)
    @@ (<<118, 111, 108, 45>> :> 17)
    @@ (<<118, 111, 108, 117, 109, 101, 43>> :> 16)
    @@ (<<118, 111, 108, 117, 109, 101, 45>> :> 17)
    @@ (<<118, 111, 108, 117, 109, 101, 45, 112, 108, 117, 115>> :> 16)
    @@ (<<118, 111, 108, 117, 109, 101, 45, 109, 105, 110, 117, 115>> :> 17)
    @@ (<<118, 111, 108, 117, 109, 101, 117, 112>> :> 16)
    @@ (<<118, 111, 108, 117, 112>> :> 16)
    @@ (<<118, 111, 108, 100, 111, 119, 110>> :> 17)
    @@ (<<118, 111, 108, 117, 109, 101, 45, 100, 111, 119, 110>> :> 17)

\* Members of RemoteKey by name (VOL_PLUS, VOL_MINUS, MUTE, HOME, OK, POWER_ON).
RemoteKeyMembers ==
    (<<86, 79, 76, 95, 80, 76, 85, 83>> :> 16)
    @@ (<<86, 79, 76, 95, 77, 73, 78, 85, 83>> :> 17)
    @@ (<<77, 85, 84, 69>> :> 13)
    @@ (<<72, 79, 77, 69>> :> 84)
    @@ (<<79, 75>> :> 92)
    @@ (<<80, 79, 87, 69, 82, 95, 79, 78>> :> 190)

\* The codes RemoteKey has a member for.
RemoteKeyValues ==
    {0, 1, 2, 3, 4, 5, 6, 7, 8, 9, 10, 13, 15, 16, 17, 40, 43, 44, 48, 49, 56, 64, 84, 88, 89, 90, 91, 92, 109, 110, 111, 112, 139, 144, 190, 191, 245}

\* The characters with decimal value 0; the nine after each are 1 to 9.
DecimalZeros ==
    {48, 1632, 1776, 1984, 2406, 2534, 2662, 2790, 2918, 3046,
     3174, 3302, 3430, 3558, 3664, 3792, 3872, 4160, 4240, 6112,
     6160, 6470, 6608, 6784, 6800, 6992, 7088, 7232, 7248, 42528,
     43216, 43264, 43472, 43504, 43600, 44016, 65296, 66720, 68912, 69734,
     69872, 69942, 70096, 70384, 70736, 70864, 71248, 71360, 71472, 71904,
     72016, 72784, 73040, 73120, 92768, 92864, 93008, 120782, 120792, 120802,
     120812, 120822, 123200, 123632, 125264, 130032}

\* The decimal value of a character, -1 when it has none.
DecimalValue(c) ==
    LET zero == {z \in DecimalZeros : z <= c /\ c <= z + 9}
    IN  IF zero = {} THEN -1 ELSE c - (CHOOSE z \in zero : TRUE)

\* What int() parses for a text: an ASCII text as it is; in any other text a
\* character below 127 as it is, white space as ' ', a decimal digit as its
\* ASCII digit and anything else as '?'.
DecimalAndSpaceToAscii(text) ==
    IF \A i \in 1..Len(text) : text[i] < 128 THEN text
    ELSE [i \in 1..Len(text) |->
            IF text[i] < 127 THEN text[i]
            ELSE IF IsSpace(text[i]) THEN 32
            ELSE IF DecimalValue(text[i]) >= 0 THEN 48 + DecimalValue(text[i])
            ELSE 63]

\* What the integer parser skips at both ends.
ParserSpace(c) == c \in {9, 10, 11, 12, 13, 32}

\* The value of a digit character in a base, -1 when it is none.
DigitValue(c, base) ==
    LET v == IF 48 <= c /\ c <= 57 THEN c - 48
             ELSE IF 97 <= AsciiLower(c) /\ AsciiLower(c) <= 102 THEN AsciiLower(c) - 87
             ELSE -1
    IN  IF v < base THEN v ELSE -1

\* The digits of a literal with the underscores left out.
DigitsOf(s) == SelectSeq(s, LAMBDA c : c # 95)

\* Digits with single underscores between them; an underscore may come first
\* after a base prefix.
WellFormedDigits(s, base, prefixed) ==
    /\ \A i \in 1..Len(s) : s[i] = 95 \/ DigitValue(s[i], base) >= 0
    /\ \E i \in 1..Len(s) : s[i] # 95
    /\ \A i \in 1..Len(s) :
        s[i] = 95 => /\ i < Len(s)
                     /\ s[i + 1] # 95
                     /\ (i > 1 \/ prefixed)

\* The value of digits in a base, most significant first. A value above
\* 2147483647 is held as 2147483647: every caller only asks whether the value
\* is a code of at most 255.
RECURSIVE DigitsValueFrom(_, _, _)
DigitsValueFrom(d, base, acc) ==
    IF d = <<>> THEN acc
    ELSE LET v == DigitValue(Head(d), base)
         IN  IF acc > (2147483647 - v) \div base THEN 2147483647
             ELSE DigitsValueFrom(Tail(d), base, acc * base + v)

\* No base gives a value below 2^31 more than 31 digits after its leading
\* zeros.
DigitsValue(d, base) ==
    IF \E i \in 1..(Len(d) - 31) : d[i] # 48 THEN 2147483647
    ELSE DigitsValueFrom(IF Len(d) > 31 THEN SubSeq(d, Len(d) - 30, Len(d)) ELSE d,
                         base, 0)

\* The value of the digits of a literal; -1 when malformed.
ParseDigits(s, base, prefixed) ==
    IF WellFormedDigits(s, base, prefixed) THEN DigitsValue(DigitsOf(s), base) ELSE -1

\* A decimal literal of more than sys.int_info.default_max_str_digits (4300)
\* digits is refused with ValueError; a literal in base 2, 8 or 16 has no limit.
ExceedsMaxStrDigits(s) == Len(DigitsOf(s)) > 4300

NotInt == [ok |-> FALSE, value |-> 0]

\* The magnitude of an unsigned literal for int(text, 0); -1 when malformed.
Magnitude(s) ==
    IF Len(s) >= 2 /\ s[1] = 48 /\ AsciiLower(s[2]) = 120
        THEN ParseDigits(SubSeq(s, 3, Len(s)), 16, TRUE)
    ELSE IF Len(s) >= 2 /\ s[1] = 48 /\ AsciiLower(s[2]) = 111
        THEN ParseDigits(SubSeq(s, 3, Len(s)), 8, TRUE)
    ELSE IF Len(s) >= 2 /\ s[1] = 48 /\ AsciiLower(s[2]) = 98
        THEN ParseDigits(SubSeq(s, 3, Len(s)), 2, TRUE)
    ELSE LET v == ParseDigits(s, 10, FALSE)
         IN  IF ExceedsMaxStrDigits(s) THEN -1
             ELSE IF s # <<>> /\ s[1] = 48 /\ v > 0 THEN -1
             ELSE v

\* Python's int(text, 0): [ok, value]; not ok is ValueError. A value beyond
\* 2147483647 either way is held as that bound.
IntBase0(text) ==
    LET s == Trimmed(DecimalAndSpaceToAscii(text), ParserSpace)
        signed == s # <<>> /\ s[1] \in {43, 45}
        m == Magnitude(IF signed THEN Tail(s) ELSE s)
    IN  IF m < 0 THEN NotInt
        ELSE [ok |-> TRUE, value |-> IF signed /\ s[1] = 45 THEN 0 - m ELSE m]

NoChoice == [kind |-> "none", value |-> 0]
ChoiceRaise == [kind |-> "raise", value |-> 0]
ChoiceReturn(v) == [kind |-> "return", value |-> v]

\* protocol._parse_enum_token(RemoteKey, token) for a text token: the member's
\* value, or ValueError.
parse_enum_token(token) ==
    LET normalized == normalize_enum_token(token)
        named == {name \in DOMAIN RemoteKeyMembers : normalize_enum_name(name) = normalized}
        number == IntBase0(token)
    IN  IF named # {} THEN ChoiceReturn(RemoteKeyMembers[CHOOSE name \in named : TRUE])
        ELSE IF ~number.ok THEN ChoiceRaise
        ELSE IF number.value \in RemoteKeyValues THEN ChoiceReturn(number.value)
        ELSE ChoiceRaise

\* cli._resolve_enum_choice(RemoteKey, raw_value, aliases=REMOTE_KEY_ALIASES)
resolve_enum_choice(raw) ==
    LET normalized == normalize_choice(raw)
        member == parse_enum_token(raw)
        number == IntBase0(raw)
    IN  IF normalized \in DOMAIN REMOTE_KEY_ALIASES THEN ChoiceReturn(REMOTE_KEY_ALIASES[normalized])
        ELSE IF member.kind = "return" THEN member
        ELSE IF ~number.ok \/ ~(0 <= number.value /\ number.value <= 255) THEN ChoiceRaise
        ELSE ChoiceReturn(number.value)

\* Every spelling of a label: each letter in either case, each separator as
\* '_', ' ' or '-'.
RECURSIVE Spellings(_)
Spellings(label) ==
    IF label = <<>> THEN {<<>>}
    ELSE LET c == Head(label)
             heads == IF c \in {95, 32, 45} THEN {95, 32, 45}
                      ELSE IF 97 <= AsciiLower(c) /\ AsciiLower(c) <= 122 THEN {AsciiLower(c), AsciiLower(c) - 32}
                      ELSE {c}
         IN  {<<h>> \o t : h \in heads, t \in Spellings(Tail(label))}

\* The labels whose every spelling is tried: vol+, vol_plus, 0x10, banana.
SpelledLabels ==
    {<<118, 111, 108, 43>>,
     <<118, 111, 108, 95, 112, 108, 117, 115>>,
     <<48, 120, 49, 48>>,
     <<98, 97, 110, 97, 110, 97>>}

\* Further inputs: '16', '0b10000', '0o20', '1_6', '016', '12', '300', '-1', '', 'vol +', 'vol+\t', ' vol+', 'mute', 'Volume Up', 'volume_plus', '0x', 'x10', '+16', '00';
\* with the separators U+001C to U+001F, the no-break space U+00A0 and the
\* ideographic space U+3000 at an end of 'vol+', 'mute', 'vol_plus' and '16';
\* '16' and '0x10' in fullwidth digits, the Arabic-Indic digit three; the
\* Kelvin sign alone and after 'O', the dotted capital I after 'MUT', the
\* capital E with acute, the capital sigma alone and after 'O';
\* '99999999999', 4300 zeros, 4301 zeros, '0x' with 4301 zeros before '10'.
Zeros(n) == [i \in 1..n |-> 48]

OtherLabels ==
    {<<49, 54>>,
     <<48, 98, 49, 48, 48, 48, 48>>,
     <<48, 111, 50, 48>>,
     <<49, 95, 54>>,
     <<48, 49, 54>>,
     <<49, 50>>,
     <<51, 48, 48>>,
     <<45, 49>>,
     <<>>,
     <<118, 111, 108, 32, 43>>,
     <<118, 111, 108, 43, 9>>,
     <<32, 118, 111, 108, 43>>,
     <<109, 117, 116, 101>>,
     <<86, 111, 108, 117, 109, 101, 32, 85, 112>>,
     <<118, 111, 108, 117, 109, 101, 95, 112, 108, 117, 115>>,
     <<48, 120>>,
     <<120, 49, 48>>,
     <<43, 49, 54>>,
     <<48, 48>>,
     <<118, 111, 108, 43, 28>>,
     <<31, 118, 111, 108, 43>>,
     <<118, 111, 108, 43, 160>>,
     <<109, 117, 116, 101, 29>>,
     <<30, 118, 111, 108, 95, 112, 108, 117, 115>>,
     <<49, 54, 12288>>,
     <<160, 49, 54>>,
     <<65297, 65302>>,
     <<1635>>,
     <<28, 49, 54>>,
     <<49, 54, 28>>,
     <<48, 120, 65297, 65296>>,
     <<65296, 65368, 65297, 65296>>,
     <<8490>>,
     <<79, 8490>>,
     <<77, 85, 84, 304>>,
     <<201>>,
     <<79, 931>>,
     <<931>>,
     <<57, 57, 57, 57, 57, 57, 57, 57, 57, 57, 57>>,
     Zeros(4300),
     Zeros(4301),
     <<48, 120>> \o Zeros(4301) \o <<49, 48>>}

RawValues == OtherLabels \cup UNION {Spellings(label) : label \in SpelledLabels}

ResolveInitIdle ==
    /\ raw_value = <<>>
    /\ choice = NoChoice

\* The try block of the remote-key branch: key_code = _resolve_enum_choice(...)
\* then key_enum = RemoteKey(key_code), which raises ValueError for a code no
\* member has; "except ValueError" prints the error and exits.
remote_key_enum(raw) ==
    LET key_code == resolve_enum_choice(raw)
    IN  IF key_code.kind = "return" /\ key_code.value \in RemoteKeyValues
            THEN key_code
            ELSE ChoiceRaise

\* remote-key <key>: the command line resolves its argument.
ResolveRemoteKey(raw) ==
    /\ choice = NoChoice
    /\ raw_value' = raw
    /\ choice' = remote_key_enum(raw)
    /\ UNCHANGED notResolve

----------------------------------------------------------------------------
(* The backlight set and read back through either engine: the asynchronous
   SICPProtocol of the integration, or the synchronous one of the command
   line. *)

Engines == {"async", "sync"}

NoBacklightCall == [engine |-> "none", monitor_id |-> 0, backlight_on |-> FALSE]

BacklightInitIdle ==
    /\ bl_call = NoBacklightCall
    /\ bl_stored = NoneInt
    /\ bl_reply = <<>>
    /\ bl_result = NoResult

\* The request set_backlight sends: construct_message(..., 0x00 if
\* backlight_on else 0x01) in the asynchronous engine,
\* build_backlight_set_message in the synchronous one.
BacklightSetRequest(engine, mid, backlight_on) ==
    IF engine = "async"
        THEN RequestOf("set_backlight", IF backlight_on THEN 1 ELSE 0, NoneInt, mid)
        ELSE build_backlight_set_message(mid, backlight_on)

\* The synchronous send_message: None when the socket raises (timeout,
\* socket.error, any other Exception), None after Control(NotSupported) or
\* Control(Nack), the response otherwise, with no echo stripping.
SyncSendOutcome(socket_fault, data) ==
    IF socket_fault # "none" THEN ReturnedNone
    ELSE LET r == SicpResponse(data)
         IN  IF r.is_nav \/ r.is_nack THEN ReturnedNone ELSE Returned(r)

\* The synchronous get_backlight_state on send_message's outcome: "ON" or
\* "OFF" (as character codes), or None.
sync_get_backlight_state(out) ==
    IF ~out.none /\ out.resp.is_data_response /\ Len(out.resp.data_payload) >= 1
        THEN LET state_byte == out.resp.data_payload[1]
             IN  ResReturn("str", IF state_byte = 1 THEN <<79, 78>> ELSE <<79, 70, 70>>)
        ELSE ResReturn("None", <<>>)

\* set_backlight(backlight_on) is sent and the display stores the state byte
\* of the request.
SetBacklight(engine, mid, backlight_on) ==
    /\ bl_call = NoBacklightCall
    /\ bl_call' = [engine |-> engine, monitor_id |-> mid, backlight_on |-> backlight_on]
    /\ bl_stored' = BacklightSetRequest(engine, mid, backlight_on)[5]
    /\ UNCHANGED <<bl_reply, bl_result, notBacklight>>

\* What the display answers to the backlight get: the stored byte in a data
\* reply, or Control(NotSupported).
BacklightReply(mid, stored, supported) ==
    IF supported THEN Frame(mid, CMD_BACKLIGHT_GET, <<stored>>)
    ELSE Frame(mid, CMD_COMMUNICATION_CONTROL, <<RESPONSE_NAV>>)

\* get_backlight_state is called on the same engine: the exchange fails in
\* the transport (socket_fault) and nothing is received, or the answer is
\* decoded.
GetBacklightState(supported, socket_fault) ==
    /\ bl_call # NoBacklightCall
    /\ bl_result = NoResult
    /\ LET reply == IF socket_fault = "none"
                        THEN BacklightReply(bl_call.monitor_id, bl_stored, supported)
                        ELSE <<>>
           request == RequestOf("get_backlight_state", NoneInt, NoneInt,
                                bl_call.monitor_id)
           pend == IF socket_fault = "none" THEN "none"
                   ELSE MapTransportError(socket_fault)
       IN  /\ bl_reply' = reply
           /\ bl_result' =
                IF bl_call.engine = "async"
                    THEN OpResult("get_backlight_state", NoneInt,
                                  SendOutcome(pend, TRUE, reply, request))
                    ELSE sync_get_backlight_state(SyncSendOutcome(socket_fault, reply))
    /\ UNCHANGED <<bl_call, bl_stored, notBacklight>>

----------------------------------------------------------------------------
\* The parts that are not the command engine, at rest.
OthersIdle == BuildInitIdle /\ PollInitIdle /\ ResolveInitIdle /\ BacklightInitIdle

Init == EngineInit /\ ClassInitIdle /\ CoordInitIdle /\ OthersIdle

Next ==
    \/ \E op \in Ops : \E a \in ArgsA(op) : \E b \in ArgsB(op) : StartCall(op, a, b)
    \/ Connect
    \/ \E kind \in TransportFaults : ConnectFail(kind)
    \/ Write
    \/ \E kind \in TransportFaults : WriteFail(kind)
    \/ Read
    \/ \E kind \in TransportFaults : ReadFail(kind)
    \/ \E r \in BOOLEAN : Close(r)
    \/ Finish

Spec == Init /\ [][Next]_vars

\* The event loop keeps running the coroutine of a call: wait_for ends the
\* connect attempt and the read with their result or with the timeout; the
\* write of one short request, the close and the code after the finally block
\* wait for nothing the display does. A reset of the connection (OSError) may
\* happen but is not bound to.
SpecLive ==
    /\ Spec
    /\ WF_vars(Connect \/ ConnectFail("timeout"))
    /\ WF_vars(Write)
    /\ WF_vars(Read \/ ReadFail("timeout"))
    /\ WF_vars(\E r \in BOOLEAN : Close(r))
    /\ WF_vars(Finish)

----------------------------------------------------------------------------
(* The response classifier on arbitrary buffers. *)

\* Bytes that reach every branch of the classifier: the control opcode, the
\* three response codes, and a byte that is none of them.
ByteSample == {CMD_COMMUNICATION_CONTROL, RESPONSE_ACK, RESPONSE_NACK,
               RESPONSE_NAV, CMD_VOLUME_GET}

Buffers == UNION {[1..n -> ByteSample] : n \in 0..MaxBuf}

ClassifyInit ==
    /\ raw_data \in Buffers
    /\ parsed = FALSE
    /\ response = BlankResponse

\* response = SicpResponse(response_data)
Classify ==
    /\ ~parsed
    /\ response' = SicpResponse(raw_data)
    /\ parsed' = TRUE
    /\ UNCHANGED <<raw_data, notClass>>

InitClassify ==
    EngineInitIdle /\ CoordInitIdle /\ OthersIdle /\ ClassifyInit

NextClassify == Classify

SpecClassify == InitClassify /\ [][NextClassify]_vars

----------------------------------------------------------------------------
(* The coordinator: every client call goes through async_call_client. *)

\* "async with self._lock" lets a task in when the lock is not held.
LockAvailableIgnored(held) == TRUE

LockAvailable(held) == ~held

\* TCP exchanges of the client call a task makes: fetch_status for the poll,
\* one set operation for an entity.
ExchangesOf(t) == IF t = PollTask THEN PollExchanges ELSE 1

\* A task calls async_call_client and reaches "async with self._lock".
RequestCall(t) ==
    /\ tpc[t] = "idle"
    /\ tpc' = [tpc EXCEPT ![t] = "waiting"]
    /\ UNCHANGED <<lock_held, tleft, tconn, notCoord>>

\* The lock is acquired and the client function is called.
Acquire(t) ==
    /\ tpc[t] = "waiting"
    /\ LockAvailable(lock_held)
    /\ lock_held' = TRUE
    /\ tpc' = [tpc EXCEPT ![t] = "running"]
    /\ tleft' = [tleft EXCEPT ![t] = ExchangesOf(t)]
    /\ UNCHANGED <<tconn, notCoord>>

\* The running client call opens the connection of its next request.
ExchangeBegin(t) ==
    /\ tpc[t] = "running"
    /\ ~tconn[t]
    /\ tleft[t] > 0
    /\ tconn' = [tconn EXCEPT ![t] = TRUE]
    /\ UNCHANGED <<lock_held, tpc, tleft, notCoord>>

\* The exchange ends with a value or with fetch_status swallowing its error.
ExchangeEnd(t) ==
    /\ tpc[t] = "running"
    /\ tconn[t]
    /\ tconn' = [tconn EXCEPT ![t] = FALSE]
    /\ tleft' = [tleft EXCEPT ![t] = tleft[t] - 1]
    /\ UNCHANGED <<lock_held, tpc, notCoord>>

\* A set raises: the exception leaves "async with", which releases the lock.
ExchangeRaise(t) ==
    /\ t # PollTask
    /\ tpc[t] = "running"
    /\ tconn[t]
    /\ tconn' = [tconn EXCEPT ![t] = FALSE]
    /\ tleft' = [tleft EXCEPT ![t] = 0]
    /\ tpc' = [tpc EXCEPT ![t] = "idle"]
    /\ lock_held' = FALSE
    /\ UNCHANGED notCoord

\* The call raises with no exchange under way: func(*args) raises TypeError
\* on its arguments, or the set raises ValueError on its range check before it
\* connects. The exception leaves "async with", which releases the lock.
CallRaise(t) ==
    /\ t # PollTask
    /\ tpc[t] = "running"
    /\ ~tconn[t]
    /\ tleft[t] > 0
    /\ tleft' = [tleft EXCEPT ![t] = 0]
    /\ tpc' = [tpc EXCEPT ![t] = "idle"]
    /\ lock_held' = FALSE
    /\ UNCHANGED <<tconn, notCoord>>

\* The client call returns: the lock is released on leaving "async with".
Release(t) ==
    /\ tpc[t] = "running"
    /\ ~tconn[t]
    /\ tleft[t] = 0
    /\ tpc' = [tpc EXCEPT ![t] = "idle"]
    /\ lock_held' = FALSE
    /\ UNCHANGED <<tleft, tconn, notCoord>>

InitCoord ==
    EngineInitIdle /\ ClassInitIdle /\ OthersIdle /\ CoordInitIdle

NextCoord ==
    \/ \E t \in Tasks : RequestCall(t)
    \/ \E t \in Tasks : Acquire(t)
    \/ \E t \in Tasks : ExchangeBegin(t)
    \/ \E t \in Tasks : ExchangeEnd(t)
    \/ \E t \in Tasks : ExchangeRaise(t)
    \/ \E t \in Tasks : CallRaise(t)
    \/ \E t \in Tasks : Release(t)

SpecCoord == InitCoord /\ [][NextCoord]_vars

----------------------------------------------------------------------------
(* The message builders on arbitrary device ids and arguments. *)

\* Argument bytes: both ends of the byte range, the levels 100 and 0x12, a flag.
ParamSample == {0, 1, 18, 100, 255}

\* Arguments the builder called name accepts: bytes; None as well for the two
\* levels of build_volume_set_message; any integer for the masked video
\* parameters.
BuilderArgs(name) ==
    IF name = "build_volume_set_message" THEN ParamSample \cup {NoneInt}
    ELSE IF name = "build_video_parameters_set_message"
        THEN ParamSample \cup {-5, 150, 256, 300}
    ELSE ParamSample

ArgsP(name) == IF name \in OneArgBuilders \cup TwoArgBuilders THEN BuilderArgs(name) ELSE {0}
ArgsQ(name) == IF name \in TwoArgBuilders THEN BuilderArgs(name) ELSE {0}

\* One builder is called.
BuildMessage(name, mid, p, q) ==
    /\ built_by.builder = "none"
    /\ built_by' = [builder |-> name, monitor_id |-> mid, p |-> p, q |-> q]
    /\ built' = ApplyBuilder(name, mid, p, q)
    /\ UNCHANGED notBuild

InitBuild ==
    EngineInitIdle /\ ClassInitIdle /\ CoordInitIdle /\ OthersIdle

\* The builders still to call: each behaviour calls one.
Callable == IF built_by.builder = "none" THEN BuilderNames ELSE {}

NextBuild ==
    \E name \in Callable : \E mid \in Byte :
        \E p \in ArgsP(name) : \E q \in ArgsQ(name) : BuildMessage(name, mid, p, q)

SpecBuild == InitBuild /\ [][NextBuild]_vars

----------------------------------------------------------------------------
(* The poll cycle on its own. *)

InitPoll ==
    EngineInitIdle /\ ClassInitIdle /\ CoordInitIdle /\ OthersIdle

NextPoll ==
    \/ PollStart
    \/ ReadFieldValue
    \/ \E kind \in ErrorKinds : ReadFieldRaise(kind)
    \/ CollectStart
    \/ CollectKeyValue
    \/ \E kind \in ErrorKinds : CollectKeyRaise(kind)
    \/ CollectReturn
    \/ PollReturn

SpecPoll == InitPoll /\ [][NextPoll]_vars

----------------------------------------------------------------------------
(* Label resolution on its own. *)

InitResolve ==
    EngineInitIdle /\ ClassInitIdle /\ CoordInitIdle /\ OthersIdle

NextResolve == \E raw \in RawValues : ResolveRemoteKey(raw)

SpecResolve == InitResolve /\ [][NextResolve]_vars

----------------------------------------------------------------------------
(* The backlight round trip on its own. *)

InitBacklight ==
    EngineInitIdle /\ ClassInitIdle /\ CoordInitIdle /\ OthersIdle

NextBacklight ==
    \/ \E engine \in Engines : \E mid \in 1..255 : \E backlight_on \in BOOLEAN :
            SetBacklight(engine, mid, backlight_on)
    \/ \E supported \in BOOLEAN : \E socket_fault \in {"none"} \cup TransportFaults :
            GetBacklightState(supported, socket_fault)

SpecBacklight == InitBacklight /\ [][NextBacklight]_vars

----------------------------------------------------------------------------
(* Properties of the command engine and the transport (Spec). *)

\* The call named op has returned or raised.
Completed(op) == pc = "idle" /\ call.op = op /\ result.kind # "none"

\* A request of the running call went out and no connect, write or read failed.
Exchanged == wire # <<>> /\ fault = NoFault

IsFineAdjust(request) == request[4] = CMD_COLOR_TEMPERATURE_FINE_SET
IsUser2Request(request) ==
    request[4] = CMD_COLOR_TEMPERATURE_SET /\ request[5] = USER2

\* C1: after a set_monitor_id(n) call that the display acknowledged with
\* Control(Ack), the stored device id is n, and a request in flight carries the
\* stored device id in byte 1.
C1_AckedReassignmentStored ==
    /\ (Completed("set_monitor_id") /\ Exchanged /\ IsAck(LastAnswer))
            => monitor_id = call.a
    /\ (pc # "idle" /\ message # <<>>) => message[2] = monitor_id

\* C2: a single-command set reports success exactly when the display answered
\* its request with Control(Ack), and otherwise returns a failure without raising.
C2_SetSucceedsIffAcked ==
    (call.op \in SingleCommandSets /\ pc = "idle" /\ result.kind # "none" /\ Exchanged)
        => /\ result.kind = "return"
           /\ Succeeded(result) <=> IsAck(LastAnswer)

\* C3: in a set_precise_color_temperature call every fine-adjustment request on
\* the wire is preceded by a "color-temperature mode = USER2" request.
C3_User2BeforeFineAdjust ==
    call.op = "set_precise_color_temperature"
        => \A i \in 1..Len(wire) :
              IsFineAdjust(wire[i])
                  => \E j \in 1..(i - 1) : IsUser2Request(wire[j])

\* The USER2 prerequisite of the running call was sent and acknowledged.
User2Acked ==
    \E j \in 1..Len(wire) : IsUser2Request(wire[j]) /\ IsAck(answers[j])

\* C4: when the USER2 prerequisite of set_precise_color_temperature is not
\* acknowledged, no fine-adjustment request is transmitted and the call reports
\* failure.
C4_NoFineAdjustWithoutUser2Ack ==
    (call.op = "set_precise_color_temperature" /\ ~User2Acked)
        => /\ \A i \in 1..Len(wire) : ~IsFineAdjust(wire[i])
           /\ Completed("set_precise_color_temperature")
                  => (result.kind = "return" /\ ~Succeeded(result))

\* The call ended after a timeout or an OSError of the transport.
TransportFailed == pc = "idle" /\ fault.kind \in {"timeout", "oserror"}

\* C5 as stated: a connect, write or read failure (timeout, refusal, reset,
\* I/O error) during any operation reaches the caller as NetworkError.
C5_TransportFailureRaisesNetworkError ==
    TransportFailed => (result.kind = "raise" /\ result.err = "NetworkError")

\* C5 as amended: a connect, write or read failure reaches the caller as
\* NetworkError in every operation but get_power_state, which returns
\* PowerState.OFFLINE; an exception of the transport that is neither a timeout
\* nor an OSError reaches the caller of every operation as a plain Exception;
\* a failure of wait_closed alone raises nothing of the kind.
C5_TransportFailureRaisesExceptPowerState ==
    /\ TransportFailed
            => IF call.op = "get_power_state"
                  THEN result = ResReturn("PowerState.OFFLINE", <<>>)
                  ELSE result.kind = "raise" /\ result.err = "NetworkError"
    /\ (pc = "idle" /\ fault.kind = "other") => result = ResRaise("Exception")
    /\ (pc = "idle" /\ fault = NoFault /\ close_failed)
            => result.err \notin {"NetworkError", "Exception"}

C5_Witness ==
    /\ Completed("get_smart_power_level")
    /\ fault = [stage |-> "read", kind |-> "timeout"]
    /\ result = ResRaise("NetworkError")

\* C7: once send_message has returned or raised, every connection it opened
\* has been closed.
C7_ConnectionsClosedOnReturn ==
    pc \in {"finishing", "idle"} => (writer # "open" /\ closed = opened)

C7_Witness ==
    /\ pc = "finishing"
    /\ opened = 1
    /\ closed = 1
    /\ fault = [stage |-> "read", kind |-> "timeout"]

\* C8: a set_monitor_id call that is rejected, not acknowledged or ended by a
\* transport error leaves the stored device id as it was before the call, and
\* the id is not touched while the call is under way.
C8_FailedReassignmentKeepsId ==
    /\ (Completed("set_monitor_id") /\ ~Succeeded(result)) => monitor_id = id_before
    /\ (call.op = "set_monitor_id" /\ pc # "idle") => monitor_id = id_before

C8_Witness ==
    /\ Completed("set_monitor_id")
    /\ call.a # id_before
    /\ Exchanged
    /\ ~IsAck(LastAnswer)
    /\ result = ResReturn("False", <<>>)

ValidatingOps == {"set_volume", "set_osd_info_timeout", "set_auto_signal_mode",
                  "set_group_id", "set_monitor_id"}

\* C9: when one of the validating sets rejects its argument with a validation
\* error, the call has opened no connection and transmitted no request.
C9_ValidationErrorBeforeNetwork ==
    (call.op \in ValidatingOps /\ pc = "idle" /\ result = ResRaise("ValueError"))
        => (opened = 0 /\ closed = 0 /\ wire = <<>>)

C9_Witness ==
    /\ Completed("set_volume")
    /\ call.a = 101
    /\ result = ResRaise("ValueError")
    /\ opened = 0
    /\ wire = <<>>

\* The display answered the request with Control(NotSupported) / Control(ChecksumError).
IsNav(ans) ==
    /\ ans.sent
    /\ Len(ans.data) >= 6
    /\ ans.data[4] = CMD_COMMUNICATION_CONTROL
    /\ ans.data[5] = RESPONSE_NAV
IsNack(ans) ==
    /\ ans.sent
    /\ Len(ans.data) >= 6
    /\ ans.data[4] = CMD_COMMUNICATION_CONTROL
    /\ ans.data[5] = RESPONSE_NACK

\* The reply was read: no connect, write or read failure in the call.
ReplyRead == pc = "idle" /\ result.kind # "none" /\ Exchanged

\* C13 as stated: in every get, a Control(NotSupported) reply raises the
\* not-supported error, a Control(ChecksumError) reply raises the
\* checksum/format error, a connect or read timeout raises NetworkError, and
\* none of the three is reported as a value.
C13_GetErrorsRaisedDistinctly ==
    (call.op \in GetOps /\ pc = "idle" /\ result.kind # "none") =>
        /\ (ReplyRead /\ IsNav(LastAnswer))
                => result = ResRaise("NotSupportedOrNotAvailableError")
        /\ (ReplyRead /\ IsNack(LastAnswer))
                => result = ResRaise("ChecksumOrFormatError")
        /\ fault.kind = "timeout" => result = ResRaise("NetworkError")

\* C13 as amended: the same, but for a timeout in get_power_state, which is
\* returned as the value PowerState.OFFLINE; the three errors differ from each
\* other.
C13_GetErrorsRaisedExceptPowerStateTimeout ==
    (call.op \in GetOps /\ pc = "idle" /\ result.kind # "none") =>
        /\ (ReplyRead /\ IsNav(LastAnswer))
                => /\ result = ResRaise("NotSupportedOrNotAvailableError")
                   /\ result.err \notin {"ChecksumOrFormatError", "NetworkError"}
        /\ (ReplyRead /\ IsNack(LastAnswer))
                => /\ result = ResRaise("ChecksumOrFormatError")
                   /\ result.err \notin {"NotSupportedOrNotAvailableError", "NetworkError"}
        /\ fault.kind = "timeout"
                => IF call.op = "get_power_state"
                      THEN result = ResReturn("PowerState.OFFLINE", <<>>)
                      ELSE result = ResRaise("NetworkError")

C13_Witness ==
    /\ Completed("get_input_source")
    /\ ReplyRead
    /\ IsNav(LastAnswer)
    /\ result = ResRaise("NotSupportedOrNotAvailableError")

----------------------------------------------------------------------------
(* Property of the coordinator (SpecCoord). *)

\* C6: no two client calls to the display run at the same time, and a TCP
\* exchange is in flight only for the call that holds the lock.
C6_ClientCallsNeverOverlap ==
    /\ \A t, u \in Tasks :
          (tpc[t] = "running" /\ tpc[u] = "running") => t = u
    /\ \A t \in Tasks : tconn[t] => (tpc[t] = "running" /\ lock_held)

C6_Witness ==
    /\ tpc[PollTask] = "running"
    /\ tconn[PollTask]
    /\ \E u \in Tasks : tpc[u] = "waiting"

----------------------------------------------------------------------------
(* Property of the response classifier (SpecClassify). *)

\* C10: a buffer of fewer than 5 bytes is Malformed (no flag, no payload); a
\* buffer of 6 bytes or more with byte 3 = 0x00 is a Control response whose code
\* follows byte 4 (Ack 0x06, NotSupported 0x18, ChecksumError 0x15, else
\* Unknown: no flag); any other buffer is a Data response whose payload is
\* bytes 4 up to but excluding the last byte.
C10_ClassifierVerdict ==
    parsed =>
        LET n == Len(raw_data)
            r == response
        IN  IF n < 5 THEN
                /\ ~r.valid /\ ~r.is_ack /\ ~r.is_nav /\ ~r.is_nack
                /\ ~r.is_data_response
                /\ r.command = NoneInt
                /\ r.data_payload = <<>>
            ELSE IF n >= 6 /\ raw_data[4] = 0 THEN
                /\ r.command = CMD_COMMUNICATION_CONTROL
                /\ ~r.is_data_response
                /\ r.data_payload = <<>>
                /\ r.is_ack <=> raw_data[5] = 6
                /\ r.is_nav <=> raw_data[5] = 24
                /\ r.is_nack <=> raw_data[5] = 21
                /\ r.valid <=> raw_data[5] \in {6, 24, 21}
            ELSE
                /\ r.is_data_response /\ r.valid
                /\ ~r.is_ack /\ ~r.is_nav /\ ~r.is_nack
                /\ r.command = raw_data[4]
                /\ r.data_payload = [i \in 1..(n - 5) |-> raw_data[i + 4]]

C10_Witness ==
    /\ parsed
    /\ Len(raw_data) = 6
    /\ raw_data[4] # 0
    /\ response.is_data_response
    /\ response.data_payload = <<raw_data[5]>>

\* What send_message hands back for the reply that was read.
Decoded == SendOutcome(pending, expect_data, response_data, message)

\* The reply of an enumeration get carries a code outside the known set.
UnknownCodeReceived ==
    /\ call.op \in EnumGetOps
    /\ ReplyRead
    /\ Decoded.kind = "return"
    /\ ~NoPayload(Decoded)
    /\ Decoded.resp.data_payload[1] \notin KnownCodes(call.op)

\* C16 as stated: a get that receives an enumeration code outside its known
\* set treats it as an unknown-but-valid value and does not fail.
C16_UnknownEnumCodeAccepted ==
    UnknownCodeReceived => result.kind = "return"

\* C15: send_message called without expecting a response performs no read
\* and returns no response right after a successful write: it is never in
\* its read, nothing the display sent is taken in, and once the write has
\* succeeded the call returns None.
C15_NoReadWithoutExpectData ==
    ~expect_data =>
        /\ pc # "reading"
        /\ response_data = <<>>
        /\ (pc = "finishing" /\ pending = "none") =>
                /\ Len(wire) = 1
                /\ SendOutcome(pending, expect_data, response_data, message) = ReturnedNone

\* set_volume has been sent, the display acknowledged it, the connection is
\* closed and send_message is about to return without having read the reply.
C15_Witness ==
    /\ pc = "finishing"
    /\ call.op = "set_volume"
    /\ ~expect_data
    /\ pending = "none"
    /\ wire = <<message>>
    /\ LastAnswer.sent
    /\ IsAck(LastAnswer)
    /\ response_data = <<>>
    /\ closed = 1

\* The data payload as the classifier took it from the reply.
Received == SicpResponse(response_data).data_payload

\* A get has read a data response and send_message has returned it.
DataReplyReturned ==
    /\ call.op \in GetOps
    /\ ReplyRead
    /\ Decoded.kind = "return"

\* C23: after a data response the payload handed to the decoder is the
\* received payload without its first byte when that byte equals the command
\* byte of the request and the payload has more than one byte, and the
\* received payload unchanged in every other case.
C23_EchoStrippedOnce ==
    DataReplyReturned =>
        LET cleaned == Decoded.resp.data_payload
        IN  /\ cleaned = IF Len(Received) > 1 /\ Received[1] = message[4]
                            THEN SubSeq(Received, 2, Len(Received))
                            ELSE Received
            /\ (call.op \in ByteGetOps /\ cleaned # <<>>) =>
                    result = ResReturn("int", <<cleaned[1]>>)

\* get_volume read the payload 45 1E 28 that starts with its own opcode and
\* decoded the levels 30 and 40.
C23_Witness ==
    /\ Completed("get_volume")
    /\ DataReplyReturned
    /\ Received = <<CMD_VOLUME_GET, 30, 40>>
    /\ Decoded.resp.data_payload = <<30, 40>>
    /\ result = ResReturn("tuple", <<30, 40>>)

\* The stripping rule applied once and twice to the received payload.
StrippedOnce == StripEcho(message, Received)
StrippedTwice == StripEcho(message, StrippedOnce)

\* C24 as stated: applying the command-echo stripping rule a second time to
\* an already stripped payload removes no further byte.
C24_StrippingIdempotent ==
    DataReplyReturned => StrippedTwice = StrippedOnce

\* C24 as amended: send_message applies the rule once to each response, so
\* the decoder's payload is the received one less at most one byte; the rule
\* applied a second time removes one further byte exactly when the stripped
\* payload has more than one byte and starts with the command byte again.
C24_StrippingAppliedOnce ==
    DataReplyReturned =>
        /\ Decoded.resp.data_payload = StrippedOnce
        /\ Len(StrippedOnce) >= Len(Received) - 1
        /\ IF Len(StrippedOnce) > 1 /\ StrippedOnce[1] = message[4]
              THEN StrippedTwice = SubSeq(StrippedOnce, 2, Len(StrippedOnce))
              ELSE StrippedTwice = StrippedOnce

\* get_volume read the payload 45 45 28: one byte was stripped, the decoder
\* got 45 28, and the rule applied again would leave 28.
C24_Witness ==
    /\ Completed("get_volume")
    /\ DataReplyReturned
    /\ Received = <<CMD_VOLUME_GET, CMD_VOLUME_GET, 40>>
    /\ Decoded.resp.data_payload = <<CMD_VOLUME_GET, 40>>
    /\ StrippedTwice = <<40>>
    /\ result = ResReturn("tuple", <<CMD_VOLUME_GET, 40>>)

\* C25: every send_message call eventually returns or raises: whatever the
\* display does or stops doing while the call connects, writes, reads or
\* closes, the call ends, for a silent display through the connect or the
\* read timeout.
C25_CallEventuallyEnds ==
    (pc # "idle") ~> (pc = "idle" /\ result.kind # "none")

\* A get met a display that never answered: the read timed out, the
\* connection was closed and the call raised NetworkError.
C25_Witness ==
    /\ Completed("get_volume")
    /\ fault = [stage |-> "read", kind |-> "timeout"]
    /\ ~LastAnswer.sent
    /\ closed = 1
    /\ result = ResRaise("NetworkError")

\* A level given by the caller (None is the omitted level).
Explicit(level) == level # NoneInt

\* The byte a level travels as when nothing alters it.
LevelByte(level) == IF Explicit(level) THEN level ELSE NO_CHANGE

\* C17: set_volume never clamps. An explicit level outside 0..100 raises a
\* validation error and nothing is sent; otherwise the request that is built
\* and sent carries the caller's value for each explicit level and 0xFF for
\* each omitted one.
C17_VolumeValidatedNeverClamped ==
    call.op = "set_volume" =>
        IF \/ (Explicit(call.a) /\ call.a \notin 0..100)
           \/ (Explicit(call.b) /\ call.b \notin 0..100)
            THEN /\ result = ResRaise("ValueError")
                 /\ wire = <<>>
                 /\ opened = 0
            ELSE /\ result.err # "ValueError"
                 /\ Len(message) = 7
                 /\ message[4] = CMD_VOLUME_SET
                 /\ message[5] = LevelByte(call.a)
                 /\ message[6] = LevelByte(call.b)
                 /\ \A i \in 1..Len(wire) : wire[i] = message

\* set_volume(100) with the audio-out level omitted went out as 100 and 0xFF.
C17_Witness ==
    /\ Completed("set_volume")
    /\ call.a = 100
    /\ call.b = NoneInt
    /\ wire = <<<<7, monitor_id, GROUP_ID, CMD_VOLUME_SET, 100, 255,
                  calculate_checksum(<<7, monitor_id, GROUP_ID, CMD_VOLUME_SET, 100, 255>>)>>>>

\* C18: set_brightness_level raises no validation error for any integer and
\* sends the video-parameters request whose brightness byte is the input
\* clamped to 0..100 and whose six other parameter bytes are 0xFF.
C18_BrightnessClampedOthersNoChange ==
    call.op = "set_brightness_level" =>
        LET level == IF call.a < 0 THEN 0 ELSE IF call.a > 100 THEN 100 ELSE call.a
            body == <<12, monitor_id, GROUP_ID, CMD_VIDEO_PARAMETERS_SET, level,
                      255, 255, 255, 255, 255, 255>>
        IN  /\ result.err # "ValueError"
            /\ message = body \o <<calculate_checksum(body)>>
            /\ (Completed("set_brightness_level") /\ fault = NoFault) => Len(wire) = 1
            /\ \A i \in 1..Len(wire) : wire[i] = message

\* set_brightness_level(150) went out with brightness byte 100.
C18_Witness ==
    /\ Completed("set_brightness_level")
    /\ call.a = 150
    /\ Len(wire) = 1
    /\ wire[1][5] = 100
    /\ \A i \in 6..11 : wire[1][i] = 255

\* n is an integer nearest to kelvin / 100.
NearestStep(n, kelvin) == 100 * n - kelvin <= 50 /\ kelvin - 100 * n <= 50

\* C19: set_precise_color_temperature converts Kelvin to the step
\* round(kelvin / 100) clamped to 20..100, the step is what the request
\* carries, and the applied Kelvin value is step * 100; 6530 K gives step 65
\* and 6500 K, 1850 K gives step 20 and 2000 K.
C19_KelvinRoundedClampedToStep ==
    (call.op = "set_precise_color_temperature" /\ message # <<>>) =>
        LET kelvin == call.a
            step == message[5]
            applied == coerce_kelvin_to_step_value(kelvin)[2]
        IN  /\ message[4] = CMD_COLOR_TEMPERATURE_FINE_SET
            /\ step \in 20..100
            /\ \/ NearestStep(step, kelvin)
               \/ (step = 20 /\ kelvin < 2000)
               \/ (step = 100 /\ kelvin > 10000)
            /\ applied = step * 100
            /\ kelvin = 6530 => (step = 65 /\ applied = 6500)
            /\ kelvin = 1850 => (step = 20 /\ applied = 2000)

\* set_precise_color_temperature(1850) went out with step 20.
C19_Witness ==
    /\ Completed("set_precise_color_temperature")
    /\ call.a = 1850
    /\ Len(wire) = 1
    /\ wire[1][4] = CMD_COLOR_TEMPERATURE_FINE_SET
    /\ wire[1][5] = 20

\* A payload byte that is no absent-sensor sentinel.
NotSentinel(b) == b # 255

\* C20: get_temperature returns the payload bytes that are not 0xFF, in
\* their original order, and returns None when every payload byte is 0xFF.
C20_TemperaturesSkipSentinel ==
    (Completed("get_temperature") /\ ReplyRead /\ Decoded.kind = "return"
        /\ ~NoPayload(Decoded)) =>
        LET payload == Decoded.resp.data_payload
        IN  IF \A i \in 1..Len(payload) : payload[i] = 255
                THEN result = ResReturn("None", <<>>)
                ELSE result = ResReturn("list", SelectSeq(payload, NotSentinel))

\* The sensors 0xFF 31 0xFF 30 were read as the list 31, 30.
C20_Witness ==
    /\ Completed("get_temperature")
    /\ ReplyRead
    /\ Decoded.kind = "return"
    /\ Decoded.resp.data_payload = <<255, 31, 255, 30>>
    /\ result = ResReturn("list", <<31, 30>>)

\* A group of a dotted text starts at i with a superfluous zero.
LeadingZeroAt(text, i) ==
    /\ text[i] = 48
    /\ (i = 1 \/ text[i - 1] = 46)
    /\ i < Len(text)
    /\ text[i + 1] # 46

\* C22: get_ip_parameter formats a 12-digit ASCII value of an IP-type
\* parameter as four dot-separated decimal groups without leading zeros
\* ("192168001001" gives "192.168.1.1") and a 6-byte raw value of the
\* Ethernet MAC parameter as colon-separated upper-case hex
\* (AA BB CC 11 22 33 gives "AA:BB:CC:11:22:33").
C22_IpParameterFormatted ==
    (Completed("get_ip_parameter") /\ ReplyRead /\ Decoded.kind = "return"
        /\ Len(Decoded.resp.data_payload) >= 2) =>
        LET code == Decoded.resp.data_payload[1]
            value == SubSeq(Decoded.resp.data_payload, 3, Len(Decoded.resp.data_payload))
            text == result.val
        IN  /\ result.kind = "return"
            /\ (code \in 1..5 /\ Len(value) = 12 /\ \A i \in 1..12 : value[i] \in 48..57) =>
                  /\ Cardinality({i \in 1..Len(text) : text[i] = 46}) = 3
                  /\ \A i \in 1..Len(text) : text[i] \in (48..57) \cup {46}
                  /\ \A i \in 1..Len(text) : ~LeadingZeroAt(text, i)
                  /\ value = <<49, 57, 50, 49, 54, 56, 48, 48, 49, 48, 48, 49>> => text = <<49, 57, 50, 46, 49, 54, 56, 46, 49, 46, 49>>
                  /\ value = <<48, 49, 48, 48, 48, 48, 48, 48, 48, 50, 53, 53>> => text = <<49, 48, 46, 48, 46, 48, 46, 50, 53, 53>>
            /\ (code = 6 /\ Len(value) = 6) =>
                  /\ Len(text) = 17
                  /\ \A i \in 1..17 : IF i % 3 = 0 THEN text[i] = 58
                                       ELSE text[i] \in (48..57) \cup (65..70)
                  /\ value = <<170, 187, 204, 17, 34, 51>> => text = <<65, 65, 58, 66, 66, 58, 67, 67, 58, 49, 49, 58, 50, 50, 58, 51, 51>>

\* The IP address "192168001001" was returned as "192.168.1.1".
C22_Witness ==
    /\ Completed("get_ip_parameter")
    /\ ReplyRead
    /\ Decoded.kind = "return"
    /\ Decoded.resp.data_payload = <<1, 1>> \o <<49, 57, 50, 49, 54, 56, 48, 48, 49, 48, 48, 49>>
    /\ result = ResReturn("str", <<49, 57, 50, 46, 49, 54, 56, 46, 49, 46, 49>>)

\* The step is the end of a set_monitor_id call whose send_message outcome
\* the engine took for an acknowledgement.
AcknowledgedReassignment ==
    /\ pc = "finishing"
    /\ call.op = "set_monitor_id"
    /\ MonitorIdAcked(SendOutcome(pending, expect_data, response_data, message))

\* C26: no operation other than set_monitor_id changes the stored device id:
\* a step changes it only as the end of an acknowledged set_monitor_id(n),
\* and then to n; and every request is built with the stored id, so the id a
\* request carries is the initial one or that of the last such reassignment.
C26_OnlyReassignmentChangesId ==
    [][/\ monitor_id' # monitor_id
            => (AcknowledgedReassignment /\ monitor_id' = call.a)
       /\ (pc' # "idle" /\ message' # <<>>) => message'[2] = monitor_id'
       /\ (pc' # "idle" /\ call'.op # "set_monitor_id")
            => monitor_id' = id_before']_vars

\* set_group_id(1) was acknowledged by a display addressed as 2: the engine
\* still addresses it as 2.
C26_Witness ==
    /\ Completed("set_group_id")
    /\ call.a = 1
    /\ Exchanged
    /\ IsAck(LastAnswer)
    /\ message[2] = 2
    /\ monitor_id = 2
    /\ id_before = 2

\* C27: get_precise_color_temperature returns the reported step times 100
\* when the step is within 20..100, and the step itself when it is not.
C27_PreciseTemperatureScaledInRange ==
    (/\ Completed("get_precise_color_temperature")
     /\ ReplyRead
     /\ Decoded.kind = "return"
     /\ Decoded.resp.data_payload # <<>>)
        => LET step == Decoded.resp.data_payload[1]
           IN  /\ result.kind = "return"
               /\ result.tag = "int"
               /\ Len(result.val) = 1
               /\ step \in 20..100 => result.val[1] = 100 * step
               /\ step \notin 20..100 => result.val[1] = step

\* The display reported step 101, which was returned as 101.
C27_Witness ==
    /\ Completed("get_precise_color_temperature")
    /\ ReplyRead
    /\ Decoded.kind = "return"
    /\ Decoded.resp.data_payload = <<101>>
    /\ result = ResReturn("int", <<101>>)

\* C28: get_volume decodes the two value bytes [s, a] the display sent
\* without an echoed opcode as (s, a), for every speaker level s in 0..100,
\* the level equal to the request's command byte included.
C28_VolumeDecodedWhateverFirstByte ==
    (/\ Completed("get_volume")
     /\ ReplyRead
     /\ Decoded.kind = "return"
     /\ Len(Received) = 2
     /\ Received[1] \in 0..100)
        => result = ResReturn("tuple", <<Received[1], Received[2]>>)

----------------------------------------------------------------------------
(* Properties of the message builders (SpecBuild). *)

\* Bit k of the byte x.
BitOf(x, k) == (x \div (2 ^ k)) % 2

\* C11: in every request a builder returns, for any device id 0..255 and any
\* accepted arguments, the last byte is the XOR of all bytes before it: each of
\* its eight bits is the parity of that bit over the preceding bytes.
C11_LastByteIsXorOfRest ==
    built_by.builder # "none" =>
        /\ Len(built) >= 5
        /\ \A i \in 1..Len(built) : built[i] \in Byte
        /\ \A k \in 0..7 :
              BitOf(built[Len(built)], k)
                  = Cardinality({i \in 1..(Len(built) - 1) : BitOf(built[i], k) = 1}) % 2

C11_Witness ==
    /\ built_by = [builder |-> "build_video_parameters_set_message",
                   monitor_id |-> 1, p |-> 300, q |-> 18]
    /\ built = <<12, 1, 0, 50, 44, 18, 255, 255, 255, 255, 255, 254>>

\* C12: in every request a builder returns, byte 0 is the number of bytes of the
\* request, the size byte and the checksum byte included.
C12_SizeByteIsLength ==
    built_by.builder # "none" => built[1] = Len(built)

C12_Witness ==
    /\ built_by.builder = "build_input_source_message"
    /\ Len(built) = 9
    /\ built[1] = 9
    /\ built[5] = built_by.p
    /\ built[6] = built_by.q
    /\ built[7] = 1
    /\ built[8] = 0

----------------------------------------------------------------------------
(* Properties of the poll cycle (SpecPoll). *)

AllReads == {FieldReads[i] : i \in 1..Len(FieldReads)}

\* C14: during one poll cycle a failed field read leaves only its own field
\* empty: fetch_status never raises, when it returns every field read has
\* been made, the field of a failed read has its default and the field of
\* every other read holds what its get returned.
C14_FailedReadLeavesOnlyItsFieldEmpty ==
    /\ poll_result # "raised"
    /\ poll_result = "returned" => pattempted = AllReads
    /\ \A r \in PlainReads :
        fields[r] = IF r \in pattempted \ pfailed THEN "value" ELSE "default"
    /\ "model_info" \in pfailed => model_info = EmptyInfo("model_info")
    /\ "sicp_info" \in pfailed => sicp_info = EmptyInfo("sicp_info")
    /\ (poll_result = "returned" /\ pfailures = 0) =>
        /\ \A i \in 1..Len(model_info) : model_info[i] = "text"
        /\ \A i \in 1..Len(sicp_info) : sicp_info[i] = "text"

\* The brightness read and the model-info read failed, the snapshot was
\* returned with every other field read.
C14_Witness ==
    /\ poll_result = "returned"
    /\ pfailed = {"brightness", "model_info"}
    /\ fields["brightness"] = "default"
    /\ fields["input_source"] = "value"
    /\ fields["mute"] = "value"
    /\ model_info = EmptyInfo("model_info")
    /\ sicp_info = <<"text", "text", "text">>

\* C29: whatever the error kind of a failed model-info read, a model-info
\* field read successfully in the same cycle is kept: when the poll leaves
\* the model-info read, every text the collector holds is in the snapshot's
\* model-info map.
C29_ModelInfoReadsKept ==
    [][\A k \in 1..Len(info) :
            (/\ pstep \in 1..Len(FieldReads)
             /\ FieldReads[pstep] = "model_info"
             /\ info[k] = "text"
             /\ pstep' # pstep)
                => model_info'[k] = "text"]_vars

----------------------------------------------------------------------------
(* Property of the label resolution (SpecResolve). *)

\* C21: remote-key resolution maps "vol+", "VOL_PLUS", "16" and "0x10" to
\* the same code 0x10, whatever the letter case and whichever of '_', ' ' and
\* '-' separates the words, and rejects the unrecognised label "banana" with
\* an error.
C21_RemoteKeyLabelsResolve ==
    choice # NoChoice =>
        /\ raw_value \in Spellings(<<118, 111, 108, 43>>) => choice = ChoiceReturn(16)
        /\ raw_value \in Spellings(<<118, 111, 108, 95, 112, 108, 117, 115>>) => choice = ChoiceReturn(16)
        /\ raw_value = <<49, 54>> => choice = ChoiceReturn(16)
        /\ raw_value \in Spellings(<<48, 120, 49, 48>>) => choice = ChoiceReturn(16)
        /\ raw_value \in Spellings(<<98, 97, 110, 97, 110, 97>>) => choice = ChoiceRaise

\* "Vol Plus" was resolved to 0x10.
C21_Witness ==
    /\ raw_value = <<86, 111, 108, 32, 80, 108, 117, 115>>
    /\ choice = ChoiceReturn(16)

----------------------------------------------------------------------------
(* Property of the backlight round trip (SpecBacklight). *)

\* The display answered the backlight get with the byte it had stored.
StoredByteRead ==
    /\ bl_result # NoResult
    /\ bl_reply = Frame(bl_call.monitor_id, CMD_BACKLIGHT_GET, <<bl_stored>>)

\* C30: in both engines get_backlight_state decodes the state byte with the
\* polarity set_backlight encodes (0x00 on, 0x01 off): a display that stores
\* the byte it was sent reads back as the state that was set.
C30_BacklightReadsBackAsSet ==
    StoredByteRead
        => /\ bl_stored = (IF bl_call.backlight_on THEN 0 ELSE 1)
           /\ bl_call.engine = "async"
                => bl_result = ResReturn("bool", <<IF bl_call.backlight_on THEN 1 ELSE 0>>)
           /\ bl_call.engine = "sync"
                => bl_result = ResReturn("str", IF bl_call.backlight_on
                                                   THEN <<79, 78>> ELSE <<79, 70, 70>>)

====
